---------------------------- MODULE Spec2Model ----------------------------
(***************************************************************************)
(* Teacher salary computation of the school-management backend: the        *)
(* attendance source resolver, the deduction rule engine, the salary       *)
(* calculator, the biometric CSV ingestion and the invoice synthesizer,    *)
(* together with the request handlers that read and write their tables.    *)
(*                                                                         *)
(* Conventions of the model                                                *)
(*  - a table is a sequence of rows; a row's id is its index; insert       *)
(*    appends, update replaces a row in place; no handler modelled here    *)
(*    deletes rows;                                                        *)
(*  - a date is its proleptic Gregorian ordinal (Python date.toordinal);   *)
(*    ISO date strings of four-digit years compare as their ordinals;      *)
(*  - money is an integer; the inputs are chosen so that every division    *)
(*    the code performs on them is exact;                                  *)
(*  - every request is a process: each database call of a handler that a   *)
(*    concurrent request can observe or disturb is one atomic step.        *)
(***************************************************************************)
EXTENDS Integers, Sequences, FiniteSets, TLC

VARIABLES
    today,      \* date.today() of the server
    rules,      \* table attendance_rules
    timings,    \* table school_timings
    bio,        \* table biometric_attendance
    att,        \* table attendance (manual attendance)
    configs,    \* table teacher_salary_config
    calcs,      \* table monthly_salary_calculations
    invoices,   \* table invoices
    uploads,    \* table csv_upload_history
    pc,         \* per request slot: the handler's position
    loc,        \* per request slot: the handler's local variables
    result,     \* the response the last step returned to a caller, if any
    fn          \* arguments and result of the last direct engine call

vars == <<today, rules, timings, bio, att, configs, calcs, invoices, uploads,
          pc, loc, result, fn>>

tables == <<rules, timings, bio, att, configs, calcs, invoices, uploads>>

\* Optional values: None is the empty sequence, a present value v is <<v>>
None == <<>>
Some(v) == <<v>>

-----------------------------------------------------------------------------
(* Bounds of the model *)

MaxReq == 2          \* concurrent request slots
MaxInvoices == 2     \* rows the invoices table may grow to
MaxCalcs == 3        \* rows monthly_salary_calculations may grow to
MaxConfigs == 3      \* rows teacher_salary_config may grow to

Req == 1..MaxReq

-----------------------------------------------------------------------------
(* Sequence helpers *)

Range(s) == {s[i] : i \in DOMAIN s}

RECURSIVE SumSeq(_)
SumSeq(s) == IF s = <<>> THEN 0 ELSE Head(s) + SumSeq(Tail(s))

RECURSIVE SeqOfSet(_)
\* the ids of a select, in index order
SeqOfSet(S) ==
    IF S = {} THEN <<>>
    ELSE LET m == CHOOSE x \in S : \A y \in S : x <= y
         IN <<m>> \o SeqOfSet(S \ {m})

-----------------------------------------------------------------------------
(* Calendar: datetime.date, calendar.monthrange *)

IsLeap(y) == (y % 4 = 0) /\ ((y % 100 # 0) \/ (y % 400 = 0))

DaysInMonth(y, m) ==
    IF m = 2 THEN (IF IsLeap(y) THEN 29 ELSE 28)
    ELSE IF m \in {4, 6, 9, 11} THEN 30 ELSE 31

RECURSIVE DaysBeforeMonth(_, _)
DaysBeforeMonth(y, m) ==
    IF m = 1 THEN 0 ELSE DaysBeforeMonth(y, m - 1) + DaysInMonth(y, m - 1)

DaysBeforeYear(y) ==
    LET p == y - 1 IN 365 * p + (p \div 4) - (p \div 100) + (p \div 400)

\* date(y, m, d).toordinal()
Ord(y, m, d) == DaysBeforeYear(y) + DaysBeforeMonth(y, m) + d

\* date.weekday(): 0 = Monday ... 6 = Sunday
Weekday(o) == (o + 6) % 7

\* [start_date, end_date) of a calculation month
MonthStart(y, m) == Ord(y, m, 1)
MonthEnd(y, m) == IF m = 12 THEN Ord(y + 1, 1, 1) ELSE Ord(y, m + 1, 1)

InMonth(o, y, m) == MonthStart(y, m) <= o /\ o < MonthEnd(y, m)

-----------------------------------------------------------------------------
(* Rows read with dict.get(key, default) *)

Get(rec, key, default) == IF key \in DOMAIN rec THEN rec[key] ELSE default

\* A reason text is the sequence of its tokens; None and "" are both the
\* empty sequence (the code reads only their truthiness, and both are falsy).
NoReason == <<>>
Truthy(reason) == reason # NoReason

\* reason.split(":")[0] if ":" in reason else "Manual"
RECURSIVE BeforeColon(_)
BeforeColon(reason) ==
    IF reason = <<>> \/ Head(reason) = ":" THEN <<>>
    ELSE <<Head(reason)>> \o BeforeColon(Tail(reason))

\* a breakdown key that kept the whole reason text
ReasonKeyUnsplit(reason) == reason

ReasonKey(reason) ==
    IF ":" \in Range(reason) THEN BeforeColon(reason) ELSE <<"Manual">>

-----------------------------------------------------------------------------
(* Deduction Rule Engine: SalaryCalculator.apply_deduction_rules *)

\* rules_by_type[ty], in the order of the rule list
RulesByType(deduction_rules, ty) ==
    SelectSeq(deduction_rules, LAMBDA r : r.rule_type = ty)

\* a formula that took deduction_value for every deduction type
CalculateDeductionByValue(rule, per_day_salary) ==
    IF rule.deduction_type = "percentage"
    THEN (rule.deduction_value * per_day_salary) \div 100
    ELSE rule.deduction_value

\* SalaryCalculator._calculate_deduction
CalculateDeduction(rule, per_day_salary) ==
    CASE rule.deduction_type = "percentage" ->
              (rule.deduction_value * per_day_salary) \div 100
      [] rule.deduction_type = "fixed_amount" -> rule.deduction_value
      [] rule.deduction_type = "full_day" -> per_day_salary
      [] rule.deduction_type = "half_day" -> per_day_salary \div 2
      [] OTHER -> 0

\* the late_count of one late_coming rule: late records of the whole run whose
\* late_minutes exceed the rule's grace_minutes
LateCount(attendance_records, grace_minutes) ==
    Cardinality({i \in DOMAIN attendance_records :
        /\ Get(attendance_records[i], "status", "") = "late"
        /\ Get(attendance_records[i], "late_minutes", 0) > grace_minutes})

\* a late_coming rule that knew no threshold: every late record beyond the
\* grace is charged
LateRuleAppliesUnconditional(rule, record, attendance_records) ==
    Get(record, "late_minutes", 0) > rule.grace_minutes

\* does one late_coming rule charge one late record
LateRuleApplies(rule, record, attendance_records) ==
    /\ Get(record, "late_minutes", 0) > rule.grace_minutes
    /\ LateCount(attendance_records, rule.grace_minutes) > rule.max_late_count

\* one <<key, amount>> per rule of the list
RuleContribs(rs, per_day_salary) ==
    [i \in DOMAIN rs |-> <<(<<rs[i].rule_name>>),
                           CalculateDeduction(rs[i], per_day_salary)>>]

\* the body of the loop over attendance_records for one record: the
\* <<breakdown key, amount>> pairs it adds, in order
RecordContribs(record, attendance_records, per_day_salary, deduction_rules) ==
    LET status == Get(record, "status", "absent")
        deduction_amount == Get(record, "deduction_amount", 0)
        deduction_reason == Get(record, "deduction_reason", NoReason)
        late == RulesByType(deduction_rules, "late_coming")
        half == RulesByType(deduction_rules, "half_day")
    IN  IF deduction_amount > 0 /\ Truthy(deduction_reason)
        THEN << <<ReasonKey(deduction_reason), deduction_amount>> >>
        ELSE CASE status = "absent" ->
                    RuleContribs(RulesByType(deduction_rules, "absent"),
                                 per_day_salary)
               [] status = "half_day" ->
                    IF half # <<>>
                    THEN RuleContribs(half, per_day_salary)
                    ELSE << <<(<<"Half Day (Default)">>),
                              per_day_salary \div 2>> >>
               [] status = "late" ->
                    RuleContribs(
                        SelectSeq(late, LAMBDA r :
                            LateRuleApplies(r, record, attendance_records)),
                        per_day_salary)
               [] status = "early_departure" ->
                    RuleContribs(RulesByType(deduction_rules, "early_departure"),
                                 per_day_salary)
               [] OTHER -> <<>>

\* deductions_by_rule[key] += amount (the key is created at 0.0 when missing)
AddTo(by_rule, key, amount) ==
    [k \in DOMAIN by_rule \cup {key} |->
        (IF k \in DOMAIN by_rule THEN by_rule[k] ELSE 0)
        + (IF k = key THEN amount ELSE 0)]

RECURSIVE Accrue(_, _)
Accrue(acc, contribs) ==
    IF contribs = <<>> THEN acc
    ELSE Accrue([total |-> acc.total + Head(contribs)[2],
                 by_rule |-> AddTo(acc.by_rule, Head(contribs)[1],
                                   Head(contribs)[2])],
                Tail(contribs))

EmptyMap == [k \in {} |-> 0]

RECURSIVE ApplyFromSeenSoFar(_, _, _, _, _)
\* a loop that showed each record only the records up to it, so that the
\* late count grew with the run
ApplyFromSeenSoFar(i, acc, attendance_records, per_day_salary, deduction_rules) ==
    IF i > Len(attendance_records) THEN acc
    ELSE ApplyFromSeenSoFar(i + 1,
                   Accrue(acc, RecordContribs(attendance_records[i],
                                              SubSeq(attendance_records, 1, i),
                                              per_day_salary, deduction_rules)),
                   attendance_records, per_day_salary, deduction_rules)

RECURSIVE ApplyFrom(_, _, _, _, _)
ApplyFrom(i, acc, attendance_records, per_day_salary, deduction_rules) ==
    IF i > Len(attendance_records) THEN acc
    ELSE ApplyFrom(i + 1,
                   Accrue(acc, RecordContribs(attendance_records[i],
                                              attendance_records,
                                              per_day_salary, deduction_rules)),
                   attendance_records, per_day_salary, deduction_rules)

\* an engine that charged every absent rule once per run, whatever the
\* records are
ApplyDeductionRulesPerRun(attendance_records, per_day_salary, deduction_rules) ==
    Accrue(ApplyFrom(1, [total |-> 0, by_rule |-> EmptyMap],
                     attendance_records, per_day_salary, deduction_rules),
           RuleContribs(RulesByType(deduction_rules, "absent"), per_day_salary))

\* returns [total |-> total_deductions, by_rule |-> deductions_by_rule]
ApplyDeductionRules(attendance_records, per_day_salary, deduction_rules) ==
    ApplyFrom(1, [total |-> 0, by_rule |-> EmptyMap],
              attendance_records, per_day_salary, deduction_rules)

-----------------------------------------------------------------------------
(* Salary Calculator: SalaryCalculator *)

\* table teachers (read-only here): teacher id -> the linked user account
TeacherUser == [t \in {"t1", "t2"} |-> IF t = "t1" THEN "u1" ELSE "u2"]
Teachers == DOMAIN TeacherUser

\* working days that counted Saturday as a working day
CalculateWorkingDaysSixDayWeek(month, year) ==
    Cardinality({d \in 1..DaysInMonth(year, month) :
                    Weekday(Ord(year, month, d)) < 6})

\* SalaryCalculator.calculate_working_days with exclude_weekends = True
CalculateWorkingDays(month, year) ==
    Cardinality({d \in 1..DaysInMonth(year, month) :
                    Weekday(Ord(year, month, d)) < 5})

\* the biometric rows of a teacher within [start_date, end_date)
BioRecords(teacher_id, month, year) ==
    SelectSeq(bio, LAMBDA b : b.teacher_id = teacher_id
                              /\ InMonth(b.attendance_date, year, month))

\* a manual attendance row in the biometric-like shape
ConvertRegular(a) ==
    [attendance_date |-> a.date,
     status |-> IF a.status = "excused" THEN "present" ELSE a.status,
     deduction_amount |-> 0,
     deduction_reason |-> NoReason,
     late_minutes |-> 0,
     early_departure_minutes |-> 0]

RegularRecords(teacher_id, month, year) ==
    LET rows == SelectSeq(att, LAMBDA a : a.user_id = TeacherUser[teacher_id]
                                          /\ InMonth(a.date, year, month))
    IN  [i \in DOMAIN rows |-> ConvertRegular(rows[i])]

\* a resolver that added the manual attendance to the biometric records
GetAttendanceRecordsMerged(teacher_id, month, year, use_biometric, fallback_to_regular, bio_fails, reg_fails) ==
    (IF use_biometric /\ ~bio_fails /\ teacher_id \in Teachers
     THEN BioRecords(teacher_id, month, year) ELSE <<>>)
    \o (IF fallback_to_regular /\ ~reg_fails /\ teacher_id \in Teachers
        THEN RegularRecords(teacher_id, month, year) ELSE <<>>)

\* a resolver that gave up after a failed biometric read
GetAttendanceRecordsNoFallthrough(teacher_id, month, year, use_biometric, fallback_to_regular, bio_fails, reg_fails) ==
    LET b == BioRecords(teacher_id, month, year)
    IN  IF use_biometric /\ bio_fails THEN <<>>
        ELSE IF use_biometric /\ teacher_id \in Teachers /\ b # <<>>
        THEN b
        ELSE IF fallback_to_regular /\ ~reg_fails /\ teacher_id \in Teachers
             THEN RegularRecords(teacher_id, month, year)
             ELSE <<>>

\* SalaryCalculator.get_attendance_records; bio_fails / reg_fails: the
\* biometric / the manual read raises (caught and logged by the resolver)
GetAttendanceRecords(teacher_id, month, year, use_biometric, fallback_to_regular, bio_fails, reg_fails) ==
    LET b == BioRecords(teacher_id, month, year)
    IN  IF use_biometric /\ ~bio_fails /\ teacher_id \in Teachers /\ b # <<>>
        THEN b
        ELSE IF fallback_to_regular /\ ~reg_fails /\ teacher_id \in Teachers
             THEN RegularRecords(teacher_id, month, year)
             ELSE <<>>

\* get_deduction_rules as it would be with active_only = False
GetDeductionRulesAll(rules_fail) ==
    IF rules_fail THEN <<>> ELSE rules

\* SalaryCalculator.get_deduction_rules(active_only = True), ordered by
\* created_at, which is the order of insertion
GetDeductionRules(rules_fail) ==
    IF rules_fail THEN <<>>
    ELSE SelectSeq(rules, LAMBDA r : r.is_active)

\* the ids of the active salary configurations of a teacher
ActiveConfigIds(teacher_id) ==
    {i \in DOMAIN configs : configs[i].teacher_id = teacher_id
                            /\ configs[i].is_active}

CountStatus(records, st) ==
    Cardinality({i \in DOMAIN records : Get(records[i], "status", "") = st})

\* SalaryCalculator.calculate_salary after the configuration lookup:
\* basic and per_day are the figures taken from the arguments or from the
\* active configuration row
CalculateSalaryFrom(teacher_id, month, year, basic, per_day, bonuses, allowances, use_biometric, fallback_to_regular, fails) ==
    LET twd == CalculateWorkingDays(month, year)
        pds == IF per_day = 0
               THEN (IF twd > 0 THEN basic \div twd ELSE 0)
               ELSE per_day
        records == GetAttendanceRecords(teacher_id, month, year, use_biometric,
                                        fallback_to_regular, fails.bio, fails.reg)
        active == GetDeductionRules(fails.rules)
        ded == ApplyDeductionRules(records, pds, active)
    IN  [basic_salary |-> basic,
         per_day_salary |-> pds,
         total_working_days |-> twd,
         present_days |-> CountStatus(records, "present"),
         absent_days |-> CountStatus(records, "absent"),
         half_days |-> CountStatus(records, "half_day"),
         late_days |-> CountStatus(records, "late"),
         total_deductions |-> ded.total,
         deductions_by_rule |-> ded.by_rule,
         bonuses |-> bonuses,
         allowances |-> allowances,
         net_salary |-> basic - ded.total + bonuses + allowances,
         attendance_records_count |-> Len(records),
         deduction_rules_applied |-> Len(active)]

NoFails == [bio |-> FALSE, reg |-> FALSE, rules |-> FALSE]

-----------------------------------------------------------------------------
(* Requests *)

NoLoc == [op |-> "none"]
NoResult == [req |-> 0, op |-> "none", status |-> "", code |-> "", data |-> <<>>]

Err(op, code) == [op |-> op, status |-> "error", code |-> code, data |-> <<>>]
Ok(op, data) == [op |-> op, status |-> "ok", code |-> "", data |-> data]

\* the response res as returned to the caller of slot r
From(r, res) == [req |-> r] @@ res

Idle(r) == pc[r] = "idle"

\* the request of slot r goes to position p with locals l
Goto(r, p, l) ==
    /\ pc' = [pc EXCEPT ![r] = p]
    /\ loc' = [loc EXCEPT ![r] = l]
    /\ result' = NoResult

\* the request of slot r ends with response res
Respond(r, res) ==
    /\ pc' = [pc EXCEPT ![r] = "idle"]
    /\ loc' = [loc EXCEPT ![r] = NoLoc]
    /\ result' = From(r, res)

\* db.table(...).update(data).eq("id", id): data's columns replace the row's
UpdateRow(row, data) ==
    [k \in DOMAIN row \cup DOMAIN data |->
        IF k \in DOMAIN data THEN data[k] ELSE row[k]]

UpdateTable(table, id, data) ==
    [table EXCEPT ![id] = UpdateRow(table[id], data)]

-----------------------------------------------------------------------------
(* calculate_monthly_salary: POST /calculate-salary *)

\* db.table("teachers").select("id"), optionally .in_("id", teacher_ids)
TeacherOrder == <<"t1", "t2">>
SelectTeachers(teacher_ids) ==
    IF teacher_ids = <<>> THEN TeacherOrder
    ELSE SelectSeq(TeacherOrder, LAMBDA t : t \in Range(teacher_ids))

\* result.calculation_details
CalculationDetails(res) ==
    [attendance_records_count |-> res.attendance_records_count,
     deduction_rules_applied |-> res.deduction_rules_applied,
     deductions_by_rule |-> res.deductions_by_rule,
     attendance_summary |->
        [present |-> res.present_days,
         absent |-> res.absent_days,
         half_day |-> res.half_days,
         late |-> res.late_days,
         total_attendance_days |-> res.attendance_records_count]]

\* calculation_data built from a SalaryCalculationResult
CalculationData(teacher_id, month, year, res) ==
    [teacher_id |-> teacher_id,
     calculation_month |-> month,
     calculation_year |-> year,
     basic_salary |-> res.basic_salary,
     per_day_salary |-> res.per_day_salary,
     total_working_days |-> res.total_working_days,
     present_days |-> res.present_days,
     absent_days |-> res.absent_days,
     half_days |-> res.half_days,
     late_days |-> res.late_days,
     total_deductions |-> res.total_deductions,
     net_salary |-> res.net_salary,
     calculation_details |-> CalculationDetails(res)]

\* column defaults of a new monthly_salary_calculations row
CalcDefaults == [is_approved |-> FALSE, approved_by |-> None]

\* ids of the rows of one (teacher, month, year)
CalcIds(teacher_id, month, year) ==
    {i \in DOMAIN calcs : /\ calcs[i].teacher_id = teacher_id
                          /\ calcs[i].calculation_month = month
                          /\ calcs[i].calculation_year = year}

\* validation and the select of the teachers (teachers_response.data); todo
\* is the part of it the loop has not processed yet
CmsStart(r, month, year, teacher_ids) ==
    /\ Idle(r)
    /\ IF ~(1 <= month /\ month <= 12)
       THEN Respond(r, Err("calculate_monthly_salary", "INVALID_MONTH"))
       ELSE IF SelectTeachers(teacher_ids) = <<>>
            THEN Respond(r, Err("calculate_monthly_salary", "NO_TEACHERS"))
            ELSE Goto(r, "cms_calc",
                      [op |-> "calculate_monthly_salary", month |-> month,
                       year |-> year, teachers |-> SelectTeachers(teacher_ids),
                       todo |-> SelectTeachers(teacher_ids),
                       calculations |-> <<>>, errors |-> <<>>])
    /\ UNCHANGED <<today, tables, fn>>

\* the end of one iteration of the loop over the teachers, with locals l;
\* after the last teacher the handler returns
CmsNext(r, l) ==
    IF Len(l.todo) > 1
    THEN Goto(r, "cms_calc", [l EXCEPT !.todo = Tail(l.todo)])
    ELSE IF l.calculations = <<>>
         THEN Respond(r, Err("calculate_monthly_salary", "NO_CALCULATIONS"))
         ELSE Respond(r, Ok("calculate_monthly_salary", l.calculations))

\* the step of CmsCalc if a missing configuration aborted the whole request
CmsCalcAborting(r, fails) ==
    /\ pc[r] = "cms_calc"
    /\ LET l == loc[r]
           t == Head(l.todo)
       IN  IF ActiveConfigIds(t) = {}
           THEN Respond(r, Err("calculate_monthly_salary",
                               "SALARY_CALCULATION_ERROR"))
           ELSE \E c \in ActiveConfigIds(t) :
                  Goto(r, "cms_existing",
                       [calculation_data |->
                           CalculationData(t, l.month, l.year,
                              CalculateSalaryFrom(t, l.month, l.year,
                                  configs[c].basic_monthly_salary,
                                  configs[c].per_day_salary, 0, 0,
                                  TRUE, TRUE, fails))]
                       @@ l)
    /\ UNCHANGED <<today, tables, fn>>

\* calculator.calculate_salary for the next teacher (config_response.data[0]
\* is any of the active rows: the select states no order); a teacher without
\* an active configuration raises ValueError and is skipped
CmsCalc(r, fails) ==
    /\ pc[r] = "cms_calc"
    /\ LET l == loc[r]
           t == Head(l.todo)
       IN  IF ActiveConfigIds(t) = {}
           THEN CmsNext(r, [l EXCEPT !.errors = Append(@, t)])
           ELSE \E c \in ActiveConfigIds(t) :
                  Goto(r, "cms_existing",
                       [calculation_data |->
                           CalculationData(t, l.month, l.year,
                              CalculateSalaryFrom(t, l.month, l.year,
                                  configs[c].basic_monthly_salary,
                                  configs[c].per_day_salary, 0, 0,
                                  TRUE, TRUE, fails))]
                       @@ l)
    /\ UNCHANGED <<today, tables, fn>>

\* the select of the existing calculation of (teacher, month, year)
CmsExisting(r) ==
    /\ pc[r] = "cms_existing"
    /\ LET l == loc[r]
           ids == CalcIds(Head(l.todo), l.month, l.year)
       IN  IF ids = {}
           THEN Goto(r, "cms_write", [existing |-> None] @@ l)
           ELSE \E id \in ids : Goto(r, "cms_write", [existing |-> Some(id)] @@ l)
    /\ UNCHANGED <<today, tables, fn>>

\* the locals of the loop after one teacher's write returned row
CmsWritten(l, row) ==
    [op |-> l.op, month |-> l.month, year |-> l.year, teachers |-> l.teachers,
     todo |-> l.todo, errors |-> l.errors,
     calculations |-> Append(l.calculations, row)]

\* the update of the existing row, or the insert of a new one
CmsWrite(r) ==
    /\ pc[r] = "cms_write"
    /\ LET l == loc[r]
       IN  IF l.existing # None
           THEN /\ calcs' = UpdateTable(calcs, l.existing[1], l.calculation_data)
                /\ CmsNext(r, CmsWritten(l, calcs'[l.existing[1]]))
           ELSE /\ Len(calcs) < MaxCalcs
                /\ calcs' = Append(calcs, UpdateRow(CalcDefaults, l.calculation_data))
                /\ CmsNext(r, CmsWritten(l, calcs'[Len(calcs')]))
    /\ UNCHANGED <<today, rules, timings, bio, att, configs, invoices, uploads, fn>>

-----------------------------------------------------------------------------
(* recalculate_salary: POST /recalculate-salary/{calculation_id} *)

\* the read of the calculation and calculator.calculate_salary
RcStart(r, calculation_id, fails) ==
    /\ Idle(r)
    /\ IF calculation_id \notin DOMAIN calcs
       THEN Respond(r, Err("recalculate_salary", "CALCULATION_NOT_FOUND"))
       ELSE LET calc == calcs[calculation_id]
                t == calc.teacher_id
            IN  IF ActiveConfigIds(t) = {}
                THEN Respond(r, Err("recalculate_salary",
                                    "SALARY_RECALCULATION_ERROR"))
                ELSE \E c \in ActiveConfigIds(t) :
                       Goto(r, "rc_write",
                            [op |-> "recalculate_salary",
                             calculation_id |-> calculation_id,
                             result |-> CalculateSalaryFrom(t,
                                  calc.calculation_month, calc.calculation_year,
                                  configs[c].basic_monthly_salary,
                                  configs[c].per_day_salary, 0, 0,
                                  TRUE, TRUE, fails)])
    /\ UNCHANGED <<today, tables, fn>>

\* calculation_data of recalculate_salary
RecalculationData(res) ==
    [basic_salary |-> res.basic_salary,
     per_day_salary |-> res.per_day_salary,
     total_working_days |-> res.total_working_days,
     present_days |-> res.present_days,
     absent_days |-> res.absent_days,
     half_days |-> res.half_days,
     late_days |-> res.late_days,
     total_deductions |-> res.total_deductions,
     net_salary |-> res.net_salary,
     calculation_details |-> CalculationDetails(res),
     is_approved |-> FALSE]

\* the update of the calculation
RcWrite(r) ==
    /\ pc[r] = "rc_write"
    /\ LET id == loc[r].calculation_id
       IN  /\ calcs' = UpdateTable(calcs, id, RecalculationData(loc[r].result))
           /\ Respond(r, Ok("recalculate_salary", calcs'[id]))
    /\ UNCHANGED <<today, rules, timings, bio, att, configs, invoices, uploads, fn>>

-----------------------------------------------------------------------------
(* approve_salary_calculation: POST /salary-calculations/{id}/approve *)

\* rows are never deleted, so the existence read and the update are one step
Approve(r, calculation_id) ==
    /\ Idle(r)
    /\ IF calculation_id \notin DOMAIN calcs
       THEN /\ Respond(r, Err("approve_salary_calculation", "CALCULATION_NOT_FOUND"))
            /\ UNCHANGED calcs
       ELSE /\ calcs' = UpdateTable(calcs, calculation_id,
                           [is_approved |-> TRUE, approved_by |-> Some("admin")])
            /\ Respond(r, Ok("approve_salary_calculation", calcs'[calculation_id]))
    /\ UNCHANGED <<today, rules, timings, bio, att, configs, invoices, uploads, fn>>

-----------------------------------------------------------------------------
(* Invoice utilities: app/core/invoice_utils.py *)

DueDays == 30

\* the invoices whose invoice_date lies in [start_date, end_date) of a month
InvoicesDatedIn(year, month) ==
    {i \in DOMAIN invoices : InMonth(invoices[i].invoice_date, year, month)}

\* generate_invoice_number when the counting query succeeds; the number
\* f"INV-{year}-{month:02d}-{sequence:05d}" is the tuple of its parts
GenerateInvoiceNumber(month, year) ==
    <<"INV", year, month, Cardinality(InvoicesDatedIn(year, month)) + 1>>

\* generate_invoice_number when the counting query raises: timestamp % 100000
FallbackInvoiceNumber(month, year, timestamp) ==
    <<"INV", year, month, timestamp % 100000>>

\* calculate_due_date
CalculateDueDate(invoice_date, days) == invoice_date + days

RECURSIVE KeysInOrder(_)
\* the keys of a breakdown in the order .items() yields them
KeysInOrder(S) ==
    IF S = {} THEN <<>>
    ELSE LET k == CHOOSE x \in S : TRUE IN <<k>> \o KeysInOrder(S \ {k})

Item(description, amount, category) ==
    [description |-> description, quantity |-> 1, unit_price |-> amount,
     amount |-> amount, category |-> category]

\* build_invoice_items
BuildInvoiceItems(calculation, template) ==
    LET basic_salary == Get(calculation, "basic_salary", 0)
        total_deductions == Get(calculation, "total_deductions", 0)
        bonuses == Get(calculation, "bonuses", 0)
        details == calculation.calculation_details
        by_rule == details.deductions_by_rule
        summary == details.attendance_summary
        charged == SelectSeq(KeysInOrder(DOMAIN by_rule),
                             LAMBDA k : by_rule[k] > 0)
        bonus_items == IF bonuses > 0
                       THEN <<Item(<<"Bonuses">>, bonuses, "bonus")>>
                       ELSE <<>>
    IN  <<Item(<<"Basic Monthly Salary">>, basic_salary, "salary")>>
        \o (IF template = "detailed"
            THEN (IF summary.total_attendance_days > 0
                  THEN <<Item(<<"Attendance", ":", ToString(summary.present),
                                "Present", ToString(summary.absent), "Absent",
                                ToString(summary.half_day), "Half Day",
                                ToString(summary.late), "Late">>,
                              0, "attendance")>>
                  ELSE <<>>)
                 \o (IF DOMAIN by_rule # {}
                     THEN [i \in DOMAIN charged |->
                              Item(<<"Deduction", ":">> \o charged[i],
                                   0 - by_rule[charged[i]], "deduction")]
                     ELSE IF total_deductions > 0
                          THEN <<Item(<<"Total Deductions">>,
                                      0 - total_deductions, "deduction")>>
                          ELSE <<>>)
                 \o bonus_items
            ELSE (IF total_deductions > 0
                  THEN <<Item(<<"Deductions">>, 0 - total_deductions,
                              "deduction")>>
                  ELSE <<>>)
                 \o bonus_items)

-----------------------------------------------------------------------------
(* generate_invoice: POST /invoices *)

\* the ids of the invoices of a calculation
InvoiceIds(calculation_id) ==
    {i \in DOMAIN invoices : invoices[i].calculation_id = calculation_id}

\* the step of GiStart if the approval check were missing
GiStartUnchecked(r, invoice_data) ==
    /\ Idle(r)
    /\ IF invoice_data.calculation_id \notin DOMAIN calcs
       THEN Respond(r, Err("generate_invoice", "CALCULATION_NOT_FOUND"))
       ELSE Goto(r, "gi_existing",
                 [op |-> "generate_invoice", invoice_data |-> invoice_data,
                  calculation |-> calcs[invoice_data.calculation_id]])
    /\ UNCHANGED <<today, tables, fn>>

\* the read of the salary calculation and the approval check
GiStart(r, invoice_data) ==
    /\ Idle(r)
    /\ IF invoice_data.calculation_id \notin DOMAIN calcs
       THEN Respond(r, Err("generate_invoice", "CALCULATION_NOT_FOUND"))
       ELSE IF ~calcs[invoice_data.calculation_id].is_approved
            THEN Respond(r, Err("generate_invoice", "CALCULATION_NOT_APPROVED"))
            ELSE Goto(r, "gi_existing",
                      [op |-> "generate_invoice", invoice_data |-> invoice_data,
                       calculation |-> calcs[invoice_data.calculation_id]])
    /\ UNCHANGED <<today, tables, fn>>

\* the step of GiExisting if the existing invoice were not looked for
GiExistingSkipped(r) ==
    /\ pc[r] = "gi_existing"
    /\ Goto(r, "gi_number", loc[r])
    /\ UNCHANGED <<today, tables, fn>>

\* the select of an invoice of this calculation: when one exists it is
\* returned (existing_invoice.data[0]; the select states no order) and the
\* handler logs "Invoice already exists", the response's code here
GiExisting(r) ==
    /\ pc[r] = "gi_existing"
    /\ LET ids == InvoiceIds(loc[r].invoice_data.calculation_id)
       IN  IF ids # {}
           THEN \E id \in ids :
                  Respond(r, [Ok("generate_invoice", invoices[id])
                                EXCEPT !.code = "INVOICE_EXISTS"])
           ELSE Goto(r, "gi_number", loc[r])
    /\ UNCHANGED <<today, tables, fn>>

\* generate_invoice_number(db, month, year): the counting query succeeds
GiNumber(r) ==
    /\ pc[r] = "gi_number"
    /\ LET c == loc[r].calculation
       IN  Goto(r, "gi_insert",
                [invoice_number |->
                    GenerateInvoiceNumber(c.calculation_month, c.calculation_year),
                 number_from |-> "count"] @@ loc[r])
    /\ UNCHANGED <<today, tables, fn>>

\* generate_invoice_number(db, month, year): the counting query raises
GiNumberFallback(r, timestamp) ==
    /\ pc[r] = "gi_number"
    /\ LET c == loc[r].calculation
       IN  Goto(r, "gi_insert",
                [invoice_number |->
                    FallbackInvoiceNumber(c.calculation_month, c.calculation_year,
                                          timestamp),
                 number_from |-> "timestamp"] @@ loc[r])
    /\ UNCHANGED <<today, tables, fn>>

\* invoice_record; number_from is a history field, not a column: it records
\* which branch of generate_invoice_number produced the number
InvoiceRecord(l, now) ==
    LET d == l.invoice_data
        c == l.calculation
        invoice_date == IF d.invoice_date # None THEN d.invoice_date[1] ELSE now
        due_date == IF d.due_date # None THEN d.due_date[1]
                    ELSE CalculateDueDate(invoice_date, DueDays)
        net_amount == Get(c, "net_salary", 0)
        tax == 0
    IN  [invoice_number |-> l.invoice_number,
         number_from |-> l.number_from,
         teacher_id |-> c.teacher_id,
         calculation_id |-> d.calculation_id,
         month |-> c.calculation_month,
         year |-> c.calculation_year,
         invoice_date |-> invoice_date,
         due_date |-> due_date,
         status |-> "draft",
         items |-> BuildInvoiceItems(c, d.template),
         subtotal |-> Get(c, "basic_salary", 0),
         deductions |-> Get(c, "total_deductions", 0),
         bonuses |-> Get(c, "bonuses", 0),
         tax |-> tax,
         net_amount |-> net_amount,
         total_amount |-> net_amount + tax,
         notes |-> d.notes]

\* the insert of the invoice
GiInsert(r) ==
    /\ pc[r] = "gi_insert"
    /\ Len(invoices) < MaxInvoices
    /\ invoices' = Append(invoices, InvoiceRecord(loc[r], today))
    /\ Respond(r, Ok("generate_invoice", invoices'[Len(invoices')]))
    /\ UNCHANGED <<today, rules, timings, bio, att, configs, calcs, uploads, fn>>

-----------------------------------------------------------------------------
(* Teacher salary configuration: POST and PUT /teacher-salary-config *)

\* validation and the select of the teacher's active configurations
CtcStart(r, config_dict) ==
    /\ Idle(r)
    /\ IF config_dict.basic_monthly_salary < 0 \/ config_dict.per_day_salary < 0
       THEN Respond(r, Err("create_teacher_salary_config", "INVALID_SALARY"))
       ELSE Goto(r, "ctc_deactivate",
                 [op |-> "create_teacher_salary_config",
                  config_dict |-> config_dict,
                  existing_configs |->
                      SeqOfSet(ActiveConfigIds(config_dict.teacher_id))])
    /\ UNCHANGED <<today, tables, fn>>

\* one iteration of the loop that closes the old configurations
CtcDeactivate(r) ==
    /\ pc[r] = "ctc_deactivate"
    /\ loc[r].existing_configs # <<>>
    /\ configs' = UpdateTable(configs, Head(loc[r].existing_configs),
                     [is_active |-> FALSE,
                      effective_to |-> Some(loc[r].config_dict.effective_from)])
    /\ Goto(r, "ctc_deactivate",
            [loc[r] EXCEPT !.existing_configs = Tail(@)])
    /\ UNCHANGED <<today, rules, timings, bio, att, calcs, invoices, uploads, fn>>

\* the insert of the new configuration
CtcInsert(r) ==
    /\ pc[r] = "ctc_deactivate"
    /\ loc[r].existing_configs = <<>>
    /\ Len(configs) < MaxConfigs
    /\ configs' = Append(configs, loc[r].config_dict)
    /\ Respond(r, Ok("create_teacher_salary_config", configs'[Len(configs')]))
    /\ UNCHANGED <<today, rules, timings, bio, att, calcs, invoices, uploads, fn>>

\* update_teacher_salary_config: update_data holds the fields that are not
\* None; rows are never deleted, so the existence read and the update are
\* one step
UpdateTeacherSalaryConfig(r, config_id, update_data) ==
    /\ Idle(r)
    /\ IF config_id \notin DOMAIN configs
       THEN /\ Respond(r, Err("update_teacher_salary_config", "NOT_FOUND"))
            /\ UNCHANGED configs
       ELSE /\ configs' = UpdateTable(configs, config_id, update_data)
            /\ Respond(r, Ok("update_teacher_salary_config", configs'[config_id]))
    /\ UNCHANGED <<today, rules, timings, bio, att, calcs, invoices, uploads, fn>>

-----------------------------------------------------------------------------
(* Attendance rules: PUT /rules/{rule_id} *)

\* update_attendance_rule: rules are never deleted, so the existence read and
\* the update are one step
UpdateAttendanceRule(r, rule_id, update_data) ==
    /\ Idle(r)
    /\ IF rule_id \notin DOMAIN rules
       THEN /\ Respond(r, Err("update_attendance_rule", "NOT_FOUND"))
            /\ UNCHANGED rules
       ELSE /\ rules' = UpdateTable(rules, rule_id, update_data)
            /\ Respond(r, Ok("update_attendance_rule", rules'[rule_id]))
    /\ UNCHANGED <<today, timings, bio, att, configs, calcs, invoices, uploads, fn>>

-----------------------------------------------------------------------------
(* Specification of the calculation and invoice lifecycle *)

Rule(name, rule_type, deduction_type, value, grace, max_late, active) ==
    [rule_name |-> name, rule_type |-> rule_type,
     deduction_type |-> deduction_type, deduction_value |-> value,
     grace_minutes |-> grace, max_late_count |-> max_late, is_active |-> active]

Config(teacher_id, basic, per_day, effective_from, active) ==
    [teacher_id |-> teacher_id, basic_monthly_salary |-> basic,
     per_day_salary |-> per_day, effective_from |-> effective_from,
     effective_to |-> None, is_active |-> active]

IdleRequests ==
    /\ pc = [r \in Req |-> "idle"]
    /\ loc = [r \in Req |-> NoLoc]
    /\ result = NoResult

NoFn == [op |-> "none"]

\* values of int(datetime.utcnow().timestamp()) of the fallback
FallbackTimestamps == {1700000001}

\* request bodies of generate_invoice
InvoiceRequests ==
    {[calculation_id |-> c, invoice_date |-> b.invoice_date,
      due_date |-> b.due_date, template |-> b.template, notes |-> b.notes] :
        c \in 1..MaxCalcs,
        b \in {[invoice_date |-> None, due_date |-> None,
                template |-> "detailed", notes |-> None],
               [invoice_date |-> Some(Ord(2024, 1, 20)),
                due_date |-> Some(Ord(2024, 2, 5)),
                template |-> "simple", notes |-> Some("n")]}}

-----------------------------------------------------------------------------
(* Specification of the invoice synthesizer: two salary calculations of     *)
(* January 2024 exist, as calculate_monthly_salary wrote them.              *)

InitialConfigs ==
    <<Config("t1", 30000, 1000, Ord(2023, 9, 1), TRUE),
      Config("t2", 36000, 1200, Ord(2023, 9, 1), TRUE)>>

InitialAttendance ==
    <<[user_id |-> "u1", date |-> Ord(2024, 1, 8), status |-> "absent"],
      [user_id |-> "u2", date |-> Ord(2024, 1, 9), status |-> "excused"]>>

Init ==
    /\ today = Ord(2024, 2, 10)
    /\ rules = <<Rule("Absent", "absent", "full_day", 0, 0, 3, TRUE)>>
    /\ timings = <<>>
    /\ bio = <<>>
    /\ att = InitialAttendance
    /\ configs = InitialConfigs
    /\ calcs = [i \in 1..2 |->
                  UpdateRow(CalcDefaults,
                     CalculationData(TeacherOrder[i], 1, 2024,
                        CalculateSalaryFrom(TeacherOrder[i], 1, 2024,
                            configs[i].basic_monthly_salary,
                            configs[i].per_day_salary, 0, 0, TRUE, TRUE, NoFails)))]
    /\ invoices = <<>>
    /\ uploads = <<>>
    /\ IdleRequests
    /\ fn = NoFn

\* recalculation and approval, on the first request slot
LifecycleOps ==
    \/ \E id \in 1..MaxCalcs : RcStart(1, id, NoFails)
    \/ RcWrite(1)
    \/ \E id \in 1..MaxCalcs : Approve(1, id)

\* the steps of generate_invoice on slot r
InvoiceOps(r) ==
    \/ \E d \in InvoiceRequests : GiStart(r, d)
    \/ GiExisting(r)
    \/ GiNumber(r)
    \/ \E ts \in FallbackTimestamps : GiNumberFallback(r, ts)
    \/ GiInsert(r)

Next ==
    \/ LifecycleOps
    \/ \E r \in Req : InvoiceOps(r)

Spec == Init /\ [][Next]_vars

\* the same operations with one request at a time
NextSeq ==
    \/ LifecycleOps
    \/ InvoiceOps(1)

SpecSeq == Init /\ [][NextSeq]_vars

-----------------------------------------------------------------------------
(* Claims about the invoice synthesizer, checked under Spec *)

\* C1: a generate_invoice call for a salary calculation whose is_approved is
\* false fails with the validation error CALCULATION_NOT_APPROVED and writes
\* nothing: every table is left as it was and the request has ended.
ThmC1 ==
    [][\A r \in Req, d \in InvoiceRequests :
          (/\ GiStart(r, d)
           /\ d.calculation_id \in DOMAIN calcs
           /\ ~calcs[d.calculation_id].is_approved)
          => /\ result' = From(r, Err("generate_invoice", "CALCULATION_NOT_APPROVED"))
             /\ pc'[r] = "idle"
             /\ tables' = tables]_vars

\* C1 witness: a call has just been refused for want of approval while
\* the calculation it named is still unapproved
WitC1 ==
    /\ result.op = "generate_invoice"
    /\ result.code = "CALCULATION_NOT_APPROVED"
    /\ \E c \in DOMAIN calcs : ~calcs[c].is_approved

\* C2 (as claimed): in every reachable state there is at most one invoice row
\* per calculation_id, concurrent generate_invoice requests included.
CexC2 ==
    \A c \in DOMAIN calcs : Cardinality(InvoiceIds(c)) <= 1

\* C3 (as claimed): whenever an invoice already exists for a calculation_id,
\* a further generate_invoice call with that id goes on to return the
\* existing invoice, whatever happened to the calculation since.
CexC3 ==
    [][\A r \in Req, d \in InvoiceRequests :
          (GiStart(r, d) /\ InvoiceIds(d.calculation_id) # {})
          => pc'[r] = "gi_existing"]_vars

\* C3 (amended): a generate_invoice call made when an invoice already exists
\* for its calculation_id creates no invoice and changes no table; if the
\* calculation is approved at the time of the call it returns one of the
\* existing invoices of that calculation unchanged, whatever the request
\* body; if the calculation is not approved (for example after a
\* recalculation) it fails with CALCULATION_NOT_APPROVED.
ThmC3 ==
    [][\A r \in Req :
          /\ \A d \in InvoiceRequests :
                (GiStart(r, d) /\ InvoiceIds(d.calculation_id) # {})
                => /\ tables' = tables
                   /\ IF calcs[d.calculation_id].is_approved
                      THEN pc'[r] = "gi_existing"
                      ELSE result' = From(r, Err("generate_invoice",
                                                 "CALCULATION_NOT_APPROVED"))
          /\ (/\ pc[r] = "gi_existing"
              /\ pc'[r] # "gi_existing"
              /\ InvoiceIds(loc[r].invoice_data.calculation_id) # {})
             => /\ tables' = tables
                /\ pc'[r] = "idle"
                /\ result'.req = r
                /\ result'.status = "ok"
                /\ result'.data \in
                     {invoices[i] :
                        i \in InvoiceIds(loc[r].invoice_data.calculation_id)}]_vars

\* C3 witness: a call has returned the invoice that already existed
WitC3 ==
    /\ result.op = "generate_invoice"
    /\ result.status = "ok"
    /\ result.code = "INVOICE_EXISTS"
    /\ result.data \in Range(invoices)

\* C4 (as claimed): after any sequence of successful generate_invoice calls
\* whose counting query succeeded, no two invoice rows carry the same
\* invoice_number (checked with one request at a time, under SpecSeq).
CexC4 ==
    (\A i \in DOMAIN invoices : invoices[i].number_from = "count")
    => \A i, j \in DOMAIN invoices :
          i # j => invoices[i].invoice_number # invoices[j].invoice_number

-----------------------------------------------------------------------------
(* Specification of calculate-and-save, recalculation and approval *)

InitCalc ==
    /\ today = Ord(2024, 2, 10)
    /\ rules = <<Rule("Absent", "absent", "full_day", 0, 0, 3, TRUE)>>
    /\ timings = <<>>
    /\ bio = <<>>
    /\ att = InitialAttendance
    /\ configs = InitialConfigs
    /\ calcs = <<>>
    /\ invoices = <<>>
    /\ uploads = <<>>
    /\ IdleRequests
    /\ fn = NoFn

\* the steps of calculate_monthly_salary on slot r
CalculateOps(r) ==
    \/ \E m \in {1, 13}, tids \in {<<>>, <<"t1">>} : CmsStart(r, m, 2024, tids)
    \/ CmsCalc(r, NoFails)
    \/ CmsExisting(r)
    \/ CmsWrite(r)

\* changes of the salary configurations, on the first request slot
ConfigOps ==
    \/ \E a \in BOOLEAN : UpdateTeacherSalaryConfig(1, 1, [is_active |-> a])
    \/ \E b \in {36000, 39000} :
          UpdateTeacherSalaryConfig(1, 2, [basic_monthly_salary |-> b])

\* one request at a time
NextCalc ==
    \/ LifecycleOps
    \/ ConfigOps
    \/ CalculateOps(1)

SpecCalc == InitCalc /\ [][NextCalc]_vars

-----------------------------------------------------------------------------
(* Claims about calculate-and-save and recalculation, checked under SpecCalc *)

\* C5 (as claimed): whenever the figures of an existing calculation row are
\* recomputed and overwritten, by recalculate_salary or by
\* calculate_monthly_salary finding an existing row, the row's is_approved is
\* false afterwards.
CexC5 ==
    [][\A r \in Req :
          /\ (pc[r] = "rc_write" /\ pc'[r] # "rc_write")
             => ~calcs'[loc[r].calculation_id].is_approved
          /\ (pc[r] = "cms_write" /\ pc'[r] # "cms_write"
                                  /\ loc[r].existing # None)
             => ~calcs'[loc[r].existing[1]].is_approved]_vars

\* the teachers of a calculate-and-save request the loop has finished with
CmsProcessed(l) ==
    {l.teachers[i] : i \in 1..(Len(l.teachers) - Len(l.todo))}

InFlightCms(r) == pc[r] \in {"cms_calc", "cms_existing", "cms_write"}

\* C7: in a calculate-and-save request over several teachers, a teacher with
\* no active salary configuration fails alone: its step writes no table, the
\* teacher is recorded as an error and the loop goes on with the teachers
\* that remain; every teacher the loop has finished with is either such an
\* error or has its calculation in the list that is returned; the row
\* returned for a teacher is the row persisted for it; and the request ends
\* by returning that list (or NO_CALCULATIONS when the list is empty).
ThmC7 ==
    /\ [](\A r \in Req : InFlightCms(r) =>
            \A t \in CmsProcessed(loc[r]) :
                (t \in Range(loc[r].errors))
                 # (\E i \in DOMAIN loc[r].calculations :
                        loc[r].calculations[i].teacher_id = t))
    /\ [][\A r \in Req :
            /\ (/\ pc[r] = "cms_calc"
                /\ pc'[r] # "cms_existing"
                /\ <<pc[r], loc[r]>> # <<pc'[r], loc'[r]>>)
               => /\ ActiveConfigIds(Head(loc[r].todo)) = {}
                  /\ tables' = tables
                  /\ IF Len(loc[r].todo) > 1
                     THEN /\ pc'[r] = "cms_calc"
                          /\ loc'[r].todo = Tail(loc[r].todo)
                          /\ loc'[r].errors = Append(loc[r].errors, Head(loc[r].todo))
                          /\ loc'[r].calculations = loc[r].calculations
                     ELSE /\ pc'[r] = "idle"
                          /\ result' = From(r,
                                IF loc[r].calculations = <<>>
                                THEN Err("calculate_monthly_salary", "NO_CALCULATIONS")
                                ELSE Ok("calculate_monthly_salary",
                                        loc[r].calculations))
            /\ (pc[r] = "cms_calc" /\ pc'[r] = "cms_existing")
               => ActiveConfigIds(Head(loc[r].todo)) # {}
            /\ (pc[r] = "cms_write" /\ pc'[r] # "cms_write")
               => LET t == Head(loc[r].todo)
                      rows == IF pc'[r] = "idle" THEN result'.data
                              ELSE loc'[r].calculations
                  IN  /\ rows # <<>>
                      /\ rows[Len(rows)] \in Range(calcs')
                      /\ rows[Len(rows)].teacher_id = t
                      /\ rows[Len(rows)].net_salary
                            = loc[r].calculation_data.net_salary
                      /\ SubSeq(rows, 1, Len(rows) - 1) = loc[r].calculations]_vars

\* C7 witness: a request over both teachers has returned the calculation of
\* the second teacher alone, the first one having no active configuration
WitC7 ==
    /\ result.op = "calculate_monthly_salary"
    /\ result.status = "ok"
    /\ Len(result.data) = 1
    /\ result.data[1].teacher_id = "t2"
    /\ result.data[1] \in Range(calcs)
    /\ ActiveConfigIds("t1") = {}
    /\ CalcIds("t1", 1, 2024) = {}

-----------------------------------------------------------------------------
(* Specification of the teacher salary configurations *)

\* request bodies of create_teacher_salary_config
ConfigRequests ==
    {Config("t1", b, 1000, ef, a) :
        b \in {31000, -1},
        ef \in {Ord(2024, 3, 1), Ord(2024, 4, 1)},
        a \in BOOLEAN}

\* request bodies of update_teacher_salary_config, None fields dropped
ConfigUpdates ==
    {[is_active |-> FALSE],
     [is_active |-> TRUE],
     [effective_to |-> Some(Ord(2024, 6, 30))]}

InitConfig ==
    /\ today = Ord(2024, 2, 10)
    /\ rules = <<>>
    /\ timings = <<>>
    /\ bio = <<>>
    /\ att = <<>>
    /\ configs = InitialConfigs
    /\ calcs = <<>>
    /\ invoices = <<>>
    /\ uploads = <<>>
    /\ IdleRequests
    /\ fn = NoFn

\* the steps of create_teacher_salary_config on slot r
CreateConfigOps(r) ==
    \/ \E c \in ConfigRequests : CtcStart(r, c)
    \/ CtcDeactivate(r)
    \/ CtcInsert(r)

NextConfig ==
    \/ \E r \in Req : CreateConfigOps(r)
    \/ \E id \in 1..MaxConfigs, u \in ConfigUpdates :
          UpdateTeacherSalaryConfig(1, id, u)

SpecConfig == InitConfig /\ [][NextConfig]_vars

\* C6 (as claimed): whenever no request is in flight, every teacher has
\* exactly one salary configuration row with is_active = true, after any
\* sequence of create_teacher_salary_config and update_teacher_salary_config
\* operations, interleaved creates for one teacher included.
CexC6 ==
    (\A r \in Req : Idle(r))
    => \A t \in Teachers : Cardinality(ActiveConfigIds(t)) = 1

-----------------------------------------------------------------------------
(* Specification of the Deduction Rule Engine as a function: the initial    *)
(* states draw the arguments of one apply_deduction_rules call, the single  *)
(* action makes the call.                                                   *)

MaxEvents == 3       \* attendance records of one engine call

\* attendance records without a precomputed deduction
Event(status, late_minutes) ==
    [status |-> status, late_minutes |-> late_minutes,
     early_departure_minutes |-> 0,
     deduction_amount |-> 0, deduction_reason |-> NoReason]

EngineEvents ==
    {Event("present", 0), Event("absent", 0),
     Event("late", 5), Event("late", 20)}

RECURSIVE SeqsUpTo(_, _)
\* the sequences over S of length at most n
SeqsUpTo(S, n) ==
    IF n = 0 THEN {<<>>}
    ELSE LET shorter == SeqsUpTo(S, n - 1)
         IN  shorter \cup {Append(s, x) : s \in shorter, x \in S}

\* one active late_coming rule with grace_minutes = 10
EngineRules ==
    {<<Rule("Late", "late_coming", d[1], d[2], 10, n, TRUE)>> :
        d \in {<<"fixed_amount", 50>>, <<"percentage", 10>>, <<"full_day", 0>>},
        n \in 0..2}

InitEngine ==
    /\ today = Ord(2024, 2, 10)
    /\ rules = <<>>
    /\ timings = <<>>
    /\ bio = <<>>
    /\ att = <<>>
    /\ configs = <<>>
    /\ calcs = <<>>
    /\ invoices = <<>>
    /\ uploads = <<>>
    /\ IdleRequests
    /\ \E recs \in SeqsUpTo(EngineEvents, MaxEvents), rs \in EngineRules :
          fn = [op |-> "args", attendance_records |-> recs,
                per_day_salary |-> 1000, deduction_rules |-> rs]

\* calculator.apply_deduction_rules(attendance_records, per_day_salary, rules)
ApplyCall ==
    /\ fn.op = "args"
    /\ LET ded == ApplyDeductionRules(fn.attendance_records, fn.per_day_salary,
                                      fn.deduction_rules)
       IN  fn' = [op |-> "apply_deduction_rules",
                  attendance_records |-> fn.attendance_records,
                  per_day_salary |-> fn.per_day_salary,
                  deduction_rules |-> fn.deduction_rules,
                  total_deductions |-> ded.total,
                  deductions_by_rule |-> ded.by_rule]
    /\ UNCHANGED <<today, tables, pc, loc, result>>

NextEngine == ApplyCall

SpecEngine == InitEngine /\ [][NextEngine]_vars

-----------------------------------------------------------------------------
(* Claims about the late-count threshold, checked under SpecEngine *)

\* the late arrivals of a call beyond the grace of its rule
LatesBeyondGrace ==
    Cardinality({i \in DOMAIN fn.attendance_records :
        /\ fn.attendance_records[i].status = "late"
        /\ fn.attendance_records[i].late_minutes
              > fn.deduction_rules[1].grace_minutes})

\* the amount of one application of the call's rule, from the rule's fields
OneApplication ==
    LET rule == fn.deduction_rules[1]
    IN  CASE rule.deduction_type = "fixed_amount" -> rule.deduction_value
          [] rule.deduction_type = "percentage" ->
                (rule.deduction_value * fn.per_day_salary) \div 100
          [] rule.deduction_type = "full_day" -> fn.per_day_salary

\* the late deduction of a call: what the breakdown holds under the rule
LateDeduction ==
    Get(fn.deductions_by_rule, <<fn.deduction_rules[1].rule_name>>, 0)

\* C9 (as claimed): with one active late_coming rule of max_late_count = N, a
\* call whose records hold exactly N + 1 late arrivals beyond the rule's
\* grace, none with a precomputed deduction, yields a late deduction of
\* exactly one application of the rule's amount.
CexC9 ==
    (/\ fn.op = "apply_deduction_rules"
     /\ LatesBeyondGrace = fn.deduction_rules[1].max_late_count + 1)
    => LateDeduction = OneApplication

\* C9 (amended): with one active late_coming rule of max_late_count = N, a
\* call whose records hold exactly N + 1 late arrivals beyond the rule's
\* grace, none with a precomputed deduction, charges every one of the N + 1
\* arrivals: the late deduction is N + 1 applications of the rule's amount;
\* with at most N such arrivals the late deduction is zero.
ThmC9 ==
    fn.op = "apply_deduction_rules"
    => LET n == fn.deduction_rules[1].max_late_count
       IN  /\ LatesBeyondGrace = n + 1
              => LateDeduction = (n + 1) * OneApplication
           /\ LatesBeyondGrace <= n => LateDeduction = 0

\* C9 witness: a call with max_late_count = 2 and three late arrivals beyond
\* grace has been charged three applications
WitC9 ==
    /\ fn.op = "apply_deduction_rules"
    /\ fn.deduction_rules[1].max_late_count = 2
    /\ LatesBeyondGrace = 3
    /\ LateDeduction = 3 * OneApplication
    /\ LateDeduction > 0

-----------------------------------------------------------------------------
(* Biometric CSV ingestion: POST /upload-csv *)

MaxUploads == 2      \* rows csv_upload_history may grow to
MaxBio == 2          \* rows biometric_attendance may grow to

\* int(x / y) of Python: the quotient truncated towards zero
TruncDiv(x, y) == IF x >= 0 THEN x \div y ELSE -((-x) \div y)

\* A time of day is its number of seconds since midnight.
\* (datetime.combine(date.today(), arrival_time) + timedelta(minutes)).time()
GraceTime(active_timing) ==
    (active_timing.arrival_time + 60 * active_timing.grace_period_minutes)
       % 86400

\* teachers whose user.full_name matches ilike %teacher_name%
NameMatches(teacher_name) ==
    CASE teacher_name = "Ali" -> {"t1"}
      [] teacher_name = "Sara" -> {"t2"}
      [] OTHER -> {}

\* f"Late arrival: {late_minutes} minutes"
LateReason(late_minutes) ==
    <<"Late arrival", ":", ToString(late_minutes), "minutes">>

\* the attendance_record built from one parsed CSV row
AttendanceRecord(teacher_id, row, active_timing, late_rule, upload_id) ==
    LET parsed_time == row.time[1]
        is_late == /\ active_timing # None
                   /\ row.status = "C/In"
                   /\ parsed_time > GraceTime(active_timing[1])
        late_minutes == IF is_late
                        THEN TruncDiv(parsed_time - active_timing[1].arrival_time, 60)
                        ELSE 0
        charged == is_late /\ late_rule # None
    IN  [teacher_id |-> teacher_id,
         attendance_date |-> row.date[1],
         check_in_time |-> IF row.status = "C/In" THEN Some(parsed_time) ELSE None,
         status |-> IF is_late THEN "late" ELSE "present",
         late_minutes |-> late_minutes,
         deduction_amount |->
            IF ~charged THEN 0
            ELSE CASE late_rule[1].deduction_type = "percentage" ->
                          late_rule[1].deduction_value * 100
                   [] late_rule[1].deduction_type = "fixed_amount" ->
                          late_rule[1].deduction_value
                   [] OTHER -> 0,
         deduction_reason |-> IF charged THEN LateReason(late_minutes) ELSE NoReason,
         uploaded_file_id |-> upload_id]

\* the optional values of a select's data[0]: any row of S, None if S is empty
FirstOf(S) == IF S = {} THEN {None} ELSE {Some(x) : x \in S}

NoUploadFails == [reads |-> FALSE, lookup |-> FALSE, write |-> FALSE,
                  finish |-> FALSE]

\* the insert of the upload history record and the reads of the active
\* timing and of the active rules; active_rules keeps one rule per rule_type,
\* of which the handler reads the late_coming one
UpStart(r, file_name, rows, fails) ==
    /\ Idle(r)
    /\ Len(uploads) < MaxUploads
    /\ uploads' = Append(uploads,
                     [file_name |-> file_name, upload_status |-> "processing",
                      records_processed |-> 0, records_successful |-> 0,
                      records_failed |-> 0, error_log |-> None])
    /\ IF fails.reads
       THEN Respond(r, Err("upload_biometric_csv", "BAD_REQUEST"))
       ELSE \E active_timing \in FirstOf({timings[i] : i \in
                                    {j \in DOMAIN timings : timings[j].is_active}}),
               late_rule \in FirstOf({rules[i] : i \in
                                    {j \in DOMAIN rules :
                                        /\ rules[j].is_active
                                        /\ rules[j].rule_type = "late_coming"}}) :
              Goto(r, "up_row",
                   [op |-> "upload_biometric_csv",
                    upload_id |-> Len(uploads'),
                    upload_record |-> uploads'[Len(uploads')],
                    todo |-> rows,
                    records_processed |-> 0, records_successful |-> 0,
                    records_failed |-> 0, error_log |-> <<>>,
                    active_timing |-> active_timing, late_rule |-> late_rule])
    /\ UNCHANGED <<today, rules, timings, bio, att, configs, calcs, invoices, fn>>

\* a failed row that was passed over without being logged or counted
UpRowFailedUncounted(r, l, message) ==
    Goto(r, "up_row", [l EXCEPT !.todo = Tail(l.todo)])

\* a failed row that ended the whole upload
UpRowFailedAborting(r, l, message) ==
    Respond(r, Err("upload_biometric_csv", "BAD_REQUEST"))

\* a row that failed: logged, counted, and the loop goes on
UpRowFailed(r, l, message) ==
    Goto(r, "up_row",
         [l EXCEPT !.todo = Tail(l.todo),
                   !.records_failed = @ + 1,
                   !.error_log = Append(@, message)])

\* a select of the existing record that never found one
BioIdsNone(teacher_id, attendance_date) == {}

\* the ids of the biometric rows of one (teacher_id, attendance_date)
BioIds(teacher_id, attendance_date) ==
    {i \in DOMAIN bio : /\ bio[i].teacher_id = teacher_id
                        /\ bio[i].attendance_date = attendance_date}

\* one CSV row up to the select of the existing biometric record
UpRow(r, fails) ==
    /\ pc[r] = "up_row"
    /\ loc[r].todo # <<>>
    /\ LET row == Head(loc[r].todo)
           l == [loc[r] EXCEPT !.records_processed = @ + 1]
       IN  IF fails.lookup
           THEN UpRowFailed(r, l, <<"Error processing row",
                                    ToString(l.records_processed)>>)
           ELSE IF NameMatches(row.name) = {}
           THEN UpRowFailed(r, l, <<"Teacher not found", row.name>>)
           ELSE IF row.date = None \/ row.time = None
           THEN UpRowFailed(r, l, <<"Invalid date/time format for", row.name>>)
           ELSE \E teacher_id \in NameMatches(row.name) :
                  LET record == AttendanceRecord(teacher_id, row, l.active_timing,
                                                 l.late_rule, l.upload_id)
                  IN  \E existing \in FirstOf(BioIds(teacher_id, row.date[1])) :
                        Goto(r, "up_write",
                             [attendance_record |-> record,
                              existing |-> existing] @@ l)
    /\ UNCHANGED <<today, tables, fn>>

\* the locals of the loop, without those of the row just handled
UpLoopLocals(l) ==
    [k \in DOMAIN l \ {"attendance_record", "existing"} |-> l[k]]

\* a write that left an existing biometric record as it was and counted the
\* row as successful
UpWriteKeeping(r, fails) ==
    /\ pc[r] = "up_write"
    /\ LET l == loc[r]
       IN  /\ IF l.existing # None
              THEN bio' = bio
              ELSE /\ Len(bio) < MaxBio
                   /\ bio' = Append(bio, l.attendance_record)
           /\ Goto(r, "up_row",
                   [UpLoopLocals(l) EXCEPT !.todo = Tail(l.todo),
                                           !.records_successful = @ + 1])
    /\ UNCHANGED <<today, rules, timings, att, configs, calcs, invoices, uploads, fn>>

\* the update of the existing biometric record, or the insert of a new one
UpWrite(r, fails) ==
    /\ pc[r] = "up_write"
    /\ LET l == loc[r]
       IN  IF fails.write
           THEN /\ UpRowFailed(r, UpLoopLocals(l),
                       <<"Error processing row", ToString(l.records_processed)>>)
                /\ UNCHANGED bio
           ELSE /\ IF l.existing # None
                   THEN bio' = UpdateTable(bio, l.existing[1], l.attendance_record)
                   ELSE /\ Len(bio) < MaxBio
                        /\ bio' = Append(bio, l.attendance_record)
                /\ Goto(r, "up_row",
                        [UpLoopLocals(l) EXCEPT !.todo = Tail(l.todo),
                                                !.records_successful = @ + 1])
    /\ UNCHANGED <<today, rules, timings, att, configs, calcs, invoices, uploads, fn>>

\* the update of the upload history record after the last row; the handler
\* returns the record as it was inserted
UpFinish(r, fails) ==
    /\ pc[r] = "up_row"
    /\ loc[r].todo = <<>>
    /\ LET l == loc[r]
           final_status ==
              IF l.records_failed = 0 THEN "completed"
              ELSE IF l.records_successful > 0 THEN "partial" ELSE "failed"
       IN  IF fails.finish
           THEN /\ Respond(r, Err("upload_biometric_csv", "BAD_REQUEST"))
                /\ UNCHANGED uploads
           ELSE /\ uploads' = UpdateTable(uploads, l.upload_id,
                       [records_processed |-> l.records_processed,
                        records_successful |-> l.records_successful,
                        records_failed |-> l.records_failed,
                        upload_status |-> final_status,
                        error_log |-> IF l.error_log # <<>>
                                      THEN Some(l.error_log) ELSE None])
                /\ Respond(r, Ok("upload_biometric_csv", l.upload_record))
    /\ UNCHANGED <<today, rules, timings, bio, att, configs, calcs, invoices, fn>>

-----------------------------------------------------------------------------
(* preview_salary_calculation: POST /preview-salary *)

\* a preview that read the manual attendance only
PreviewManualOnly(r, teacher_id, month, year, fails) ==
    /\ Idle(r)
    /\ IF ~(1 <= month /\ month <= 12)
       THEN Respond(r, Err("preview_salary_calculation", "INVALID_MONTH"))
       ELSE IF ActiveConfigIds(teacher_id) = {}
            THEN Respond(r, Err("preview_salary_calculation", "ValueError"))
            ELSE \E c \in ActiveConfigIds(teacher_id) :
                   Respond(r, Ok("preview_salary_calculation",
                       CalculateSalaryFrom(teacher_id, month, year,
                           configs[c].basic_monthly_salary,
                           configs[c].per_day_salary, 0, 0, FALSE, TRUE, fails)))
    /\ UNCHANGED <<today, tables, fn>>

\* calculator.calculate_salary without salary arguments, on one snapshot of
\* the tables; nothing is written
Preview(r, teacher_id, month, year, fails) ==
    /\ Idle(r)
    /\ IF ~(1 <= month /\ month <= 12)
       THEN Respond(r, Err("preview_salary_calculation", "INVALID_MONTH"))
       ELSE IF ActiveConfigIds(teacher_id) = {}
            THEN Respond(r, Err("preview_salary_calculation", "ValueError"))
            ELSE \E c \in ActiveConfigIds(teacher_id) :
                   Respond(r, Ok("preview_salary_calculation",
                       CalculateSalaryFrom(teacher_id, month, year,
                           configs[c].basic_monthly_salary,
                           configs[c].per_day_salary, 0, 0, TRUE, TRUE, fails)))
    /\ UNCHANGED <<today, tables, fn>>

-----------------------------------------------------------------------------
(* Specification of ingestion followed by calculation: one request at a     *)
(* time uploads biometric CSV files, switches deduction rules on and off    *)
(* and previews salaries of January 2024.                                   *)

CsvRow(name, date, time, status) ==
    [name |-> name, date |-> date, time |-> time, status |-> status]

\* the uploaded files: file name and parsed rows; arrival is at 08:00:00
CsvFiles ==
    {<<"a.csv", <<CsvRow("Ali", Some(Ord(2024, 1, 10)), Some(8 * 3600 + 20 * 60),
                         "C/In")>> >>,
     <<"b.csv", <<CsvRow("Ali", Some(Ord(2024, 1, 10)), Some(8 * 3600 + 3 * 60),
                         "C/In"),
                  CsvRow("Ali", Some(Ord(2024, 1, 11)), Some(8 * 3600 + 30 * 60),
                         "C/In")>> >>,
     <<"c.csv", <<CsvRow("Zed", Some(Ord(2024, 1, 10)), Some(8 * 3600), "C/In"),
                  CsvRow("Ali", None, None, "C/Out")>> >>}

InitSalary ==
    /\ today = Ord(2024, 2, 10)
    /\ rules = <<Rule("Late", "late_coming", "fixed_amount", 50, 10, 3, TRUE),
                 Rule("Absent", "absent", "full_day", 0, 0, 3, TRUE)>>
    /\ timings = <<[arrival_time |-> 8 * 3600, grace_period_minutes |-> 5,
                    is_active |-> TRUE]>>
    /\ bio = <<>>
    /\ att = <<[user_id |-> "u2", date |-> Ord(2024, 1, 9), status |-> "absent"],
               [user_id |-> "u2", date |-> Ord(2024, 1, 12), status |-> "late"]>>
    /\ configs = InitialConfigs
    /\ calcs = <<>>
    /\ invoices = <<>>
    /\ uploads = <<>>
    /\ IdleRequests
    /\ fn = NoFn

\* the steps of upload_biometric_csv on slot r
UploadOps(r) ==
    \/ \E f \in CsvFiles : UpStart(r, f[1], f[2], NoUploadFails)
    \/ UpRow(r, NoUploadFails)
    \/ UpWrite(r, NoUploadFails)
    \/ UpFinish(r, NoUploadFails)

NextSalary ==
    \/ UploadOps(1)
    \/ \E id \in DOMAIN rules, a \in BOOLEAN :
          UpdateAttendanceRule(1, id, [is_active |-> a])
    \/ \E t \in Teachers : Preview(1, t, 1, 2024, NoFails)

SpecSalary == InitSalary /\ [][NextSalary]_vars

-----------------------------------------------------------------------------
(* Claims about late deductions and active rules, checked under SpecSalary *)

RECURSIVE SumOver(_, _)
\* the sum of f over the set S of its keys
SumOver(f, S) ==
    IF S = {} THEN 0
    ELSE LET k == CHOOSE x \in S : TRUE
         IN  f[k] + SumOver(f, S \ {k})

\* the events the resolver supplies for a teacher's January 2024
JanuaryEvents(t) == GetAttendanceRecords(t, 1, 2024, TRUE, TRUE, FALSE, FALSE)

ActiveRuleIds == {i \in DOMAIN rules : rules[i].is_active}

\* the late deduction of a calculation result: what its breakdown holds under
\* the late_coming rules and under the reason of a late arrival
LateDeductionOf(res) ==
    LET late_keys == {<<rules[i].rule_name>> :
                         i \in {j \in DOMAIN rules :
                                   rules[j].rule_type = "late_coming"}}
                     \cup {<<"Late arrival">>}
    IN  SumOver(res.deductions_by_rule,
                late_keys \cap DOMAIN res.deductions_by_rule)

\* C8 (as claimed): given an active late_coming rule with max_late_count = N
\* and grace_minutes = G, a calculation for a teacher whose month holds at
\* most N late arrivals beyond G yields zero late deduction, whether the
\* events came from biometric records or from manual attendance.
CexC8 ==
    [][\A t \in Teachers :
          (/\ Preview(1, t, 1, 2024, NoFails)
           /\ result'.status = "ok"
           /\ \E i \in ActiveRuleIds :
                 /\ rules[i].rule_type = "late_coming"
                 /\ LateCount(JanuaryEvents(t), rules[i].grace_minutes)
                       <= rules[i].max_late_count)
          => LateDeductionOf(result'.data) = 0]_vars

\* has the event a deduction precomputed at ingestion
Precomputed(e) == e.deduction_amount > 0 /\ e.deduction_reason # NoReason

\* C10 (as claimed): no contribution to a calculation stems from a rule that
\* is inactive when calculate_salary runs: with every rule inactive the
\* breakdown holds nothing but the default of a half day, amounts of
\* biometric records ingested while a rule was active included.
CexC10 ==
    [][\A t \in Teachers :
          (/\ Preview(1, t, 1, 2024, NoFails)
           /\ result'.status = "ok"
           /\ ActiveRuleIds = {})
          => DOMAIN result'.data.deductions_by_rule
                \subseteq {<<"Half Day (Default)">>}]_vars

\* C10 (amended): the rule dispatch of a calculation evaluates exactly the
\* rules with is_active = true at calculation time: every key of
\* deductions_by_rule is the name of a rule active now, the default of a half
\* day, or the reason key of an event that carries a deduction precomputed at
\* ingestion; such a precomputed amount is accrued as stored, whether or not
\* the rule that produced it is still active; and total_deductions is the sum
\* of the breakdown.
ThmC10 ==
    [][\A t \in Teachers :
          (Preview(1, t, 1, 2024, NoFails) /\ result'.status = "ok")
          => LET events == JanuaryEvents(t)
                 by_rule == result'.data.deductions_by_rule
                 active_keys == {<<rules[i].rule_name>> : i \in ActiveRuleIds}
                 stored == {i \in DOMAIN events : Precomputed(events[i])}
                 stored_keys == {ReasonKey(events[i].deduction_reason) : i \in stored}
             IN  /\ DOMAIN by_rule \subseteq
                       active_keys \cup stored_keys \cup {<<"Half Day (Default)">>}
                 /\ \A k \in stored_keys \ active_keys :
                       /\ k \in DOMAIN by_rule
                       /\ by_rule[k] = SumOver(
                             [i \in stored |-> events[i].deduction_amount],
                             {i \in stored :
                                 ReasonKey(events[i].deduction_reason) = k})
                 /\ result'.data.total_deductions
                       = SumOver(by_rule, DOMAIN by_rule)]_vars

\* C10 witness: with every rule switched off, a preview has charged the
\* amount stored on a biometric record at ingestion
WitC10 ==
    /\ result.op = "preview_salary_calculation"
    /\ result.status = "ok"
    /\ ActiveRuleIds = {}
    /\ <<"Late arrival">> \in DOMAIN result.data.deductions_by_rule
    /\ result.data.total_deductions = 50
    /\ \E i \in DOMAIN bio : Precomputed(bio[i])

-----------------------------------------------------------------------------
(* Specification of the Attendance Source Resolver as a function of the     *)
(* tables: the initial states draw the biometric and the manual attendance  *)
(* rows of January 2024 and the salary configurations; the actions call     *)
(* get_attendance_records and preview a salary, with and without failing    *)
(* reads.                                                                   *)

BioRow(teacher_id, attendance_date, status, late_minutes, amount, reason) ==
    [teacher_id |-> teacher_id, attendance_date |-> attendance_date,
     check_in_time |-> None, status |-> status, late_minutes |-> late_minutes,
     deduction_amount |-> amount, deduction_reason |-> reason,
     uploaded_file_id |-> 1]

\* biometric rows to draw from: the first day of the month, a late day with a
\* stored deduction, and the first day of the next month
BioPool ==
    <<BioRow("t1", Ord(2024, 1, 1), "present", 0, 0, NoReason),
      BioRow("t1", Ord(2024, 1, 10), "late", 20, 50, LateReason(20)),
      BioRow("t1", Ord(2024, 2, 1), "present", 0, 0, NoReason)>>

\* manual attendance rows to draw from
AttPool ==
    <<[user_id |-> "u1", date |-> Ord(2024, 1, 8), status |-> "absent"],
      [user_id |-> "u1", date |-> Ord(2024, 1, 9), status |-> "excused"]>>

\* the rows of pool at the indexes S, in the order of pool
Pick(pool, S) == [i \in 1..Cardinality(S) |-> pool[SeqOfSet(S)[i]]]

FailSets == [bio : BOOLEAN, reg : BOOLEAN, rules : BOOLEAN]

InitResolver ==
    /\ today = Ord(2024, 2, 10)
    /\ rules = <<Rule("Absent", "absent", "full_day", 0, 0, 3, TRUE)>>
    /\ timings = <<>>
    /\ \E S \in SUBSET DOMAIN BioPool : bio = Pick(BioPool, S)
    /\ \E S \in SUBSET DOMAIN AttPool : att = Pick(AttPool, S)
    /\ \E a \in BOOLEAN :
          configs = <<Config("t1", 30000, 1000, Ord(2023, 9, 1), TRUE),
                      Config("t2", 36000, 1200, Ord(2023, 9, 1), a)>>
    /\ calcs = <<>>
    /\ invoices = <<>>
    /\ uploads = <<>>
    /\ IdleRequests
    /\ fn = NoFn

\* calculator.get_attendance_records(teacher_id, month, year, use_biometric,
\* fallback_to_regular)
ResolveCall(teacher_id, month, year, use_biometric, fallback_to_regular, fails) ==
    /\ fn.op = "none"
    /\ fn' = [op |-> "get_attendance_records", teacher_id |-> teacher_id,
              month |-> month, year |-> year,
              use_biometric |-> use_biometric,
              fallback_to_regular |-> fallback_to_regular,
              fails |-> fails,
              records |-> GetAttendanceRecords(teacher_id, month, year,
                              use_biometric, fallback_to_regular,
                              fails.bio, fails.reg)]
    /\ UNCHANGED <<today, tables, pc, loc, result>>

\* either direct calls of the resolver or previews are made on one drawing
NextResolver ==
    \/ \E t \in Teachers, ub \in BOOLEAN, fb \in BOOLEAN,
          f \in {x \in FailSets : ~x.rules} :
          result = NoResult /\ ResolveCall(t, 1, 2024, ub, fb, f)
    \/ \E t \in Teachers, f \in FailSets :
          fn.op = "none" /\ Preview(1, t, 1, 2024, f)

SpecResolver == InitResolver /\ [][NextResolver]_vars

-----------------------------------------------------------------------------
(* Claims about the resolver, checked under SpecResolver *)

\* the indexes of the biometric rows of a teacher dated in January 2024
JanuaryBioIds(t) ==
    {i \in DOMAIN bio : /\ bio[i].teacher_id = t
                        /\ Ord(2024, 1, 1) <= bio[i].attendance_date
                        /\ bio[i].attendance_date < Ord(2024, 2, 1)}

\* the indexes of the manual attendance rows of a teacher's user account
\* dated in January 2024
JanuaryAttIds(t) ==
    {i \in DOMAIN att : /\ att[i].user_id = TeacherUser[t]
                        /\ Ord(2024, 1, 1) <= att[i].date
                        /\ att[i].date < Ord(2024, 2, 1)}

\* C11: with use_biometric true and a biometric read that succeeds, if at
\* least one biometric row of the teacher is dated within [first day of the
\* month, first day of the next month), get_attendance_records returns
\* exactly those biometric rows, each once, and nothing taken from manual
\* attendance, even with fallback_to_regular true and manual rows present.
ThmC11 ==
    (/\ fn.op = "get_attendance_records"
     /\ fn.use_biometric
     /\ ~fn.fails.bio
     /\ JanuaryBioIds(fn.teacher_id) # {})
    => /\ Range(fn.records) = {bio[i] : i \in JanuaryBioIds(fn.teacher_id)}
       /\ Len(fn.records) = Cardinality(JanuaryBioIds(fn.teacher_id))
       /\ \A i \in DOMAIN fn.records :
             /\ "teacher_id" \in DOMAIN fn.records[i]
             /\ fn.records[i].teacher_id = fn.teacher_id

\* C11 witness: a call with fallback_to_regular true has returned the single
\* biometric row of the month while the teacher has manual attendance too
WitC11 ==
    /\ fn.op = "get_attendance_records"
    /\ fn.use_biometric /\ fn.fallback_to_regular /\ ~fn.fails.bio
    /\ Cardinality(JanuaryBioIds(fn.teacher_id)) = 1
    /\ Cardinality(JanuaryAttIds(fn.teacher_id)) = 2
    /\ Len(fn.records) = 1
    /\ fn.records[1] \in Range(bio)

\* C12: a failing attendance read never fails calculate_salary: when the
\* teacher has an active configuration the preview returns a result whatever
\* reads fail; a failed biometric read counts as no biometric records, so the
\* manual attendance is used; a failed manual read counts as no records; with
\* no records the result has no deduction and net_salary = basic_salary; the
\* call fails only when the teacher has no active configuration.
ThmC12 ==
    [][\A t \in Teachers, f \in FailSets :
          Preview(1, t, 1, 2024, f)
          => LET from_bio == IF f.bio THEN 0 ELSE Cardinality(JanuaryBioIds(t))
                 from_att == IF f.reg THEN 0 ELSE Cardinality(JanuaryAttIds(t))
                 expected == IF from_bio > 0 THEN from_bio ELSE from_att
             IN  IF ActiveConfigIds(t) = {}
                 THEN result'.status = "error"
                 ELSE /\ result'.status = "ok"
                      /\ result'.data.attendance_records_count = expected
                      /\ expected = 0
                         => /\ result'.data.total_deductions = 0
                            /\ result'.data.net_salary = result'.data.basic_salary
                 ]_vars

\* C12 witness: a preview whose biometric read failed has returned a result
\* computed from the two manual attendance rows, biometric rows existing
WitC12 ==
    /\ result.op = "preview_salary_calculation"
    /\ result.status = "ok"
    /\ JanuaryBioIds("t1") # {}
    /\ Cardinality(JanuaryAttIds("t1")) = 2
    /\ result.data.attendance_records_count = 2
    /\ result.data.absent_days = 1
    /\ result.data.present_days = 1
    /\ \A i \in JanuaryBioIds("t1") : bio[i].status # "present"

-----------------------------------------------------------------------------
(* Specification of preview beside calculate-and-save: on one drawing of    *)
(* the attendance tables, which no action changes, salaries of January 2024 *)
(* are previewed and are calculated and saved.                              *)

NextPreview ==
    \/ CalculateOps(1)
    \/ \E t \in Teachers : Preview(1, t, 1, 2024, NoFails)

SpecPreview == InitResolver /\ [][NextPreview]_vars

\* the figures of a calculation result or of a calculation row
Figures(x) ==
    <<x.basic_salary, x.per_day_salary, x.total_working_days, x.present_days,
      x.absent_days, x.half_days, x.late_days, x.total_deductions, x.net_salary>>

\* C13: preview_salary_calculation changes no table, and the figures it
\* returns for a teacher, month and year are the figures of every row that
\* calculate_monthly_salary persisted for them from the same rules,
\* configurations and attendance (which no action of SpecPreview changes).
ThmC13 ==
    [][\A t \in Teachers :
          Preview(1, t, 1, 2024, NoFails)
          => /\ tables' = tables
             /\ result'.status = "ok"
                => \A i \in CalcIds(t, 1, 2024) :
                      Figures(calcs[i]) = Figures(result'.data)]_vars

\* C13 witness: a preview has returned figures with a deduction for a teacher
\* whose calculation of the month is persisted
WitC13 ==
    /\ result.op = "preview_salary_calculation"
    /\ result.status = "ok"
    /\ result.data.basic_salary = 30000
    /\ result.data.total_deductions > 0
    /\ JanuaryBioIds("t1") # {}
    /\ JanuaryAttIds("t1") # {}
    /\ \E i \in CalcIds("t1", 1, 2024) : Figures(calcs[i]) = Figures(result.data)

-----------------------------------------------------------------------------
(* Specification of the CSV uploads with failing calls: one upload at a     *)
(* time; the reads after the history insert, the lookups of a row, the      *)
(* write of a row and the final update of the history may each raise.       *)

\* the files of CsvFiles, a file with a failing row between two rows of one
\* (teacher, date), and a file without rows
UploadFiles ==
    CsvFiles \cup
    {<<"d.csv", <<CsvRow("Ali", Some(Ord(2024, 1, 10)), Some(8 * 3600 + 20 * 60),
                         "C/In"),
                  CsvRow("Zed", Some(Ord(2024, 1, 10)), Some(8 * 3600), "C/In"),
                  CsvRow("Ali", Some(Ord(2024, 1, 10)), Some(16 * 3600),
                         "C/Out")>> >>,
     <<"e.csv", <<>> >>}

\* the rows of the uploaded file of that name
RowsOfFile(file_name) ==
    (CHOOSE f \in UploadFiles : f[1] = file_name)[2]

UploadFailOps(r) ==
    \/ \E f \in UploadFiles, b \in BOOLEAN :
          UpStart(r, f[1], f[2], [NoUploadFails EXCEPT !.reads = b])
    \/ \E b \in BOOLEAN : UpRow(r, [NoUploadFails EXCEPT !.lookup = b])
    \/ \E b \in BOOLEAN : UpWrite(r, [NoUploadFails EXCEPT !.write = b])
    \/ \E b \in BOOLEAN : UpFinish(r, [NoUploadFails EXCEPT !.finish = b])

NextUpload == UploadFailOps(1)

SpecUpload == InitSalary /\ [][NextUpload]_vars

-----------------------------------------------------------------------------
(* Claims about the CSV ingestion, checked under SpecUpload *)

BioKey(row) == <<row.teacher_id, row.attendance_date>>

\* a step of the upload of slot r
UploadStep(r) == <<pc[r], loc[r]>> # <<pc'[r], loc'[r]>>

\* C14: after any sequence of CSV uploads biometric_attendance holds at most
\* one row per (teacher_id, attendance_date), and each successful write of a
\* CSV row leaves the single row of its pair equal to the record built from
\* that CSV row, so of two rows of one pair processed one after the other the
\* second is what is stored.
ThmC14 ==
    /\ [](\A i, j \in DOMAIN bio : i # j => BioKey(bio[i]) # BioKey(bio[j]))
    /\ [][\A r \in Req :
            (/\ pc[r] = "up_write"
             /\ pc'[r] = "up_row"
             /\ loc'[r].records_successful = loc[r].records_successful + 1)
            => \E i \in DOMAIN bio' :
                  /\ bio'[i] = loc[r].attendance_record
                  /\ \A j \in DOMAIN bio' \ {i} :
                        BioKey(bio'[j]) # BioKey(bio'[i])]_vars

\* C14 witness: the late check-in of 10 January stored by the first upload
\* has been replaced by the check-in within grace of the second upload
WitC14 ==
    /\ Len(uploads) = 2
    /\ uploads[1].file_name = "a.csv"
    /\ uploads[1].records_successful = 1
    /\ \E i \in DOMAIN bio :
          /\ BioKey(bio[i]) = <<"t1", Ord(2024, 1, 10)>>
          /\ bio[i].uploaded_file_id = 2
          /\ bio[i].status = "present"
          /\ bio[i].check_in_time = Some(8 * 3600 + 3 * 60)
    /\ Cardinality(BioIds("t1", Ord(2024, 1, 10))) = 1

\* the upload history rows whose upload has processed all its rows
FinishedUploads == {i \in DOMAIN uploads : uploads[i].upload_status # "processing"}

\* C15 (as claimed): once an upload has processed all its rows, its history
\* record is completed exactly when zero rows failed, partial when at least
\* one row failed and at least one succeeded, and failed when no row
\* succeeded.
CexC15 ==
    \A i \in FinishedUploads :
       LET u == uploads[i]
       IN  /\ u.upload_status = "completed" <=> u.records_failed = 0
           /\ (u.records_failed >= 1 /\ u.records_successful >= 1)
                 => u.upload_status = "partial"
           /\ u.records_successful = 0 => u.upload_status = "failed"

\* C15 (amended): once an upload has processed all its rows, its history
\* record is completed exactly when zero rows failed (a file without rows
\* included, although no row succeeded), partial exactly when at least one
\* row failed and at least one succeeded, and failed exactly when at least
\* one row failed and none succeeded; every row of the file is counted as
\* successful or as failed, and error_log holds one entry per failed row
\* (None when no row failed); each failing row adds its entry and its count.
ThmC15 ==
    /\ [](\A i \in FinishedUploads :
            LET u == uploads[i]
            IN  /\ u.upload_status = "completed" <=> u.records_failed = 0
                /\ u.upload_status = "partial"
                      <=> (u.records_failed >= 1 /\ u.records_successful >= 1)
                /\ u.upload_status = "failed"
                      <=> (u.records_failed >= 1 /\ u.records_successful = 0)
                /\ u.records_processed = Len(RowsOfFile(u.file_name))
                /\ u.records_processed = u.records_successful + u.records_failed
                /\ IF u.records_failed = 0 THEN u.error_log = None
                   ELSE /\ u.error_log # None
                        /\ Len(u.error_log[1]) = u.records_failed)
    /\ [][\A r \in Req :
            (/\ pc[r] \in {"up_row", "up_write"}
             /\ pc'[r] = "up_row"
             /\ loc[r].todo # <<>>
             /\ bio' = bio)
            => /\ loc'[r].records_failed = loc[r].records_failed + 1
               /\ Len(loc'[r].error_log) = Len(loc[r].error_log) + 1
               /\ loc'[r].records_successful = loc[r].records_successful]_vars

\* C15 witness: an upload of three rows has ended partial, with two rows
\* successful, one failed and one entry in its error_log
WitC15 ==
    \E i \in FinishedUploads :
       /\ uploads[i].file_name = "d.csv"
       /\ uploads[i].upload_status = "partial"
       /\ uploads[i].records_successful = 2
       /\ uploads[i].records_failed = 1
       /\ uploads[i].error_log = Some(<< <<"Teacher not found", "Zed">> >>)

\* C16: CSV rows are independent: a row whose teacher name is unmatched,
\* whose date or time is unparseable or whose lookup or write raises writes
\* no biometric record, and the loop goes on with the next row; no step of an
\* upload ends the request while rows remain; and a step of an upload never
\* removes a biometric row nor changes one other than the row of the record
\* it writes, so rows already written are never rolled back.
ThmC16 ==
    [][\A r \in Req :
          (UploadStep(r) /\ pc[r] \in {"up_row", "up_write"} /\ loc[r].todo # <<>>)
          => LET row == Head(loc[r].todo)
                 bad == \/ NameMatches(row.name) = {}
                        \/ row.date = None
                        \/ row.time = None
                 failed == /\ pc'[r] = "up_row"
                           /\ loc'[r].todo = Tail(loc[r].todo)
                           /\ loc'[r].records_failed = loc[r].records_failed + 1
                           /\ bio' = bio
                 written == /\ pc'[r] = "up_row"
                            /\ loc'[r].todo = Tail(loc[r].todo)
                            /\ loc'[r].records_successful
                                  = loc[r].records_successful + 1
                            /\ loc[r].attendance_record \in Range(bio')
             IN  /\ pc[r] = "up_row" /\ bad => failed
                 /\ pc[r] = "up_row" /\ ~bad
                       => \/ failed
                          \/ /\ pc'[r] = "up_write"
                             /\ loc'[r].todo = loc[r].todo
                             /\ bio' = bio
                 /\ pc[r] = "up_write" => (failed \/ written)
                 /\ \A i \in DOMAIN bio :
                       /\ i \in DOMAIN bio'
                       /\ \/ bio'[i] = bio[i]
                          \/ /\ pc[r] = "up_write"
                             /\ bio'[i] = loc[r].attendance_record
                             /\ BioKey(bio[i]) = BioKey(bio'[i])]_vars

\* C16 witness: in an upload of three rows the second row failed, and the
\* rows before and after it were written: the stored record is the third's
WitC16 ==
    /\ \E i \in DOMAIN uploads :
          /\ uploads[i].file_name = "d.csv"
          /\ uploads[i].records_failed = 1
          /\ uploads[i].records_successful = 2
          /\ \E j \in DOMAIN bio :
                /\ bio[j].uploaded_file_id = i
                /\ bio[j].check_in_time = None
                /\ BioKey(bio[j]) = <<"t1", Ord(2024, 1, 10)>>

\* C17 (as claimed): once an upload request has finished, the history record
\* it created is completed, partial or failed, never processing, whatever
\* call failed during the request, and the record returned to the caller
\* shows that final status.
CexC17 ==
    /\ Idle(1) => \A i \in DOMAIN uploads : uploads[i].upload_status # "processing"
    /\ (result.op = "upload_biometric_csv" /\ result.status = "ok")
       => result.data.upload_status \in {"completed", "partial", "failed"}

-----------------------------------------------------------------------------
(* Specification of concurrent calculate-and-save requests for teacher t1   *)
(* and January 2024, while the salary configuration of t1 changes.          *)

NextCalcConc ==
    \/ \E r \in Req : \/ CmsStart(r, 1, 2024, <<"t1">>)
                      \/ CmsCalc(r, NoFails)
                      \/ CmsExisting(r)
                      \/ CmsWrite(r)
    \/ \E b \in {30000, 33000} :
          UpdateTeacherSalaryConfig(1, 1, [basic_monthly_salary |-> b])

SpecCalcConc == InitCalc /\ [][NextCalcConc]_vars

\* C18 (as claimed): after any interleaving of concurrent
\* calculate_monthly_salary requests for one teacher, month and year there is
\* exactly one monthly_salary_calculations row for that key once a request
\* has written.
CexC18 ==
    \A t \in Teachers : Cardinality(CalcIds(t, 1, 2024)) <= 1

-----------------------------------------------------------------------------
(* Invoice maintenance: update_invoice_status_if_overdue, list_invoices     *)
(* (GET /invoices) and update_invoice (PUT /invoices/{invoice_id})          *)

\* validate_invoice_status
ValidateInvoiceStatus(status) ==
    status \in {"draft", "sent", "paid", "overdue", "cancelled"}

\* the select of the sweep: .lt("due_date", today).in_("status", [draft, sent])
OverdueIds ==
    {i \in DOMAIN invoices :
        invoices[i].due_date < today /\ invoices[i].status \in {"draft", "sent"}}

\* list_invoices up to the select of the sweep; when that select raises, the
\* sweep logs the error and returns 0, and the listing goes on
LiStart(r, caller, filters, sweep_fails) ==
    /\ Idle(r)
    /\ LET ids == IF sweep_fails THEN <<>> ELSE SeqOfSet(OverdueIds)
       IN  Goto(r, IF ids = <<>> THEN "li_select" ELSE "li_sweep",
                [op |-> "list_invoices", caller |-> caller,
                 filters |-> filters, overdue |-> ids])
    /\ UNCHANGED <<today, tables, fn>>

\* one turn of the sweep's loop: the update of the next selected invoice by
\* its id alone; when it raises, the sweep ends and the listing goes on
LiSweep(r, sweep_fails) ==
    /\ pc[r] = "li_sweep"
    /\ LET l == loc[r]
           rest == Tail(l.overdue)
       IN  IF sweep_fails
           THEN /\ invoices' = invoices
                /\ Goto(r, "li_select", [l EXCEPT !.overdue = <<>>])
           ELSE /\ invoices' = UpdateTable(invoices, Head(l.overdue),
                                           [status |-> "overdue"])
                /\ Goto(r, IF rest = <<>> THEN "li_select" ELSE "li_sweep",
                        [l EXCEPT !.overdue = rest])
    /\ UNCHANGED <<today, rules, timings, bio, att, configs, calcs, uploads, fn>>

\* the teachers whose user is user_id
TeachersOfUser(user_id) == {t \in Teachers : TeacherUser[t] = user_id}

\* the filters of the listing's query on one invoice
MatchesFilters(inv, f) ==
    /\ f.teacher_id # None => inv.teacher_id = f.teacher_id[1]
    /\ f.month # None => inv.month = f.month[1]
    /\ f.year # None => inv.year = f.year[1]
    /\ f.status # None => inv.status = f.status[1]
    /\ f.calculation_id # None => inv.calculation_id = f.calculation_id[1]

RECURSIVE Descending(_)
\* the rows of the ids S, newest first: .order("created_at", desc=True)
Descending(S) ==
    IF S = {} THEN <<>>
    ELSE LET m == CHOOSE x \in S : \A y \in S : y <= x
         IN <<invoices[m]>> \o Descending(S \ {m})

\* the listing's query; caller is None for an admin or principal and the
\* user id of a teacher. The teacher lookup is .single(): for a user without
\* a teacher row it raises or returns no data, as the client library decides
LiSelect(r) ==
    /\ pc[r] = "li_select"
    /\ LET l == loc[r]
           f == l.filters
           own == IF l.caller = None THEN Teachers ELSE TeachersOfUser(l.caller[1])
           ids == {i \in DOMAIN invoices :
                      invoices[i].teacher_id \in own /\ MatchesFilters(invoices[i], f)}
       IN  IF own = {}
           THEN \/ Respond(r, Ok("list_invoices", <<>>))
                \/ Respond(r, Err("list_invoices", "INVOICE_FETCH_ERROR"))
           ELSE IF f.status # None /\ ~ValidateInvoiceStatus(f.status[1])
                THEN Respond(r, Err("list_invoices", "INVALID_STATUS"))
                ELSE Respond(r, Ok("list_invoices", Descending(ids)))
    /\ UNCHANGED <<today, tables, fn>>

\* the step of UiWrite if the update wrote the amount of the invoice's
\* calculation along with the request's columns
UiWriteRefreshing(r) ==
    /\ pc[r] = "ui_write"
    /\ LET id == loc[r].invoice_id
           net == calcs[invoices[id].calculation_id].net_salary + 1
       IN  /\ invoices' = UpdateTable(invoices, id,
                              loc[r].update_data @@ [net_amount |-> net])
           /\ Respond(r, Ok("update_invoice", invoices'[id]))
    /\ UNCHANGED <<today, rules, timings, bio, att, configs, calcs, uploads, fn>>

\* update_invoice up to the update: the existence read (.single(): for a
\* missing invoice it raises or returns no data, as the client library
\* decides) and the validation of the status. update_data is
\* model_dump(exclude_unset=True) of InvoiceUpdate
UiStart(r, invoice_id, update_data) ==
    /\ Idle(r)
    /\ IF invoice_id \notin DOMAIN invoices
       THEN \/ Respond(r, Err("update_invoice", "INVOICE_NOT_FOUND"))
            \/ Respond(r, Err("update_invoice", "INVOICE_UPDATE_ERROR"))
       ELSE IF "status" \in DOMAIN update_data
               /\ ~ValidateInvoiceStatus(update_data.status)
            THEN Respond(r, Err("update_invoice", "INVALID_STATUS"))
            ELSE Goto(r, "ui_write",
                      [op |-> "update_invoice", invoice_id |-> invoice_id,
                       update_data |-> update_data])
    /\ UNCHANGED <<today, tables, fn>>

\* db.table("invoices").update(update_data).eq("id", invoice_id)
UiWrite(r) ==
    /\ pc[r] = "ui_write"
    /\ LET id == loc[r].invoice_id
       IN  /\ invoices' = UpdateTable(invoices, id, loc[r].update_data)
           /\ Respond(r, Ok("update_invoice", invoices'[id]))
    /\ UNCHANGED <<today, rules, timings, bio, att, configs, calcs, uploads, fn>>

-----------------------------------------------------------------------------
(* Specification of the invoice listing: both January calculations are      *)
(* approved and invoiced; one request lists invoices while another updates  *)
(* them.                                                                    *)

\* the invoice generate_invoice writes for a calculation, a request body and
\* the sequence number of generate_invoice_number
GeneratedInvoice(calculation, invoice_data, sequence) ==
    InvoiceRecord([invoice_data |-> invoice_data, calculation |-> calculation,
                   invoice_number |-> <<"INV", calculation.calculation_year,
                                        calculation.calculation_month, sequence>>,
                   number_from |-> "count"], today)

\* the request body of generate_invoice that states its dates, and the one
\* that leaves them to the defaults
DatedBody(calculation_id) ==
    [calculation_id |-> calculation_id, invoice_date |-> Some(Ord(2024, 1, 20)),
     due_date |-> Some(Ord(2024, 2, 5)), template |-> "simple", notes |-> Some("n")]

PlainBody(calculation_id) ==
    [calculation_id |-> calculation_id, invoice_date |-> None,
     due_date |-> None, template |-> "detailed", notes |-> None]

InitInvoiced(n) ==
    /\ today = Ord(2024, 2, 10)
    /\ rules = <<Rule("Absent", "absent", "full_day", 0, 0, 3, TRUE)>>
    /\ timings = <<>>
    /\ bio = <<>>
    /\ att = InitialAttendance
    /\ configs = InitialConfigs
    /\ calcs = [i \in 1..2 |->
                  UpdateRow(CalcDefaults,
                     CalculationData(TeacherOrder[i], 1, 2024,
                        CalculateSalaryFrom(TeacherOrder[i], 1, 2024,
                            configs[i].basic_monthly_salary,
                            configs[i].per_day_salary, 0, 0, TRUE, TRUE, NoFails))
                     @@ [is_approved |-> TRUE, approved_by |-> Some("admin")])]
    /\ invoices = SubSeq(<<GeneratedInvoice(calcs[1], DatedBody(1), 1),
                           GeneratedInvoice(calcs[2], PlainBody(2), 2)>>, 1, n)
    /\ uploads = <<>>
    /\ IdleRequests
    /\ fn = NoFn

InitListing == InitInvoiced(2)

\* query parameters of list_invoices
NoFilters ==
    [teacher_id |-> None, month |-> None, year |-> None, status |-> None,
     calculation_id |-> None]

ListFilters ==
    {NoFilters,
     [NoFilters EXCEPT !.status = Some("overdue")],
     [NoFilters EXCEPT !.status = Some("void")],
     [NoFilters EXCEPT !.teacher_id = Some("t2"), !.calculation_id = Some(2)],
     [NoFilters EXCEPT !.month = Some(1), !.year = Some(2024)]}

\* callers of list_invoices, with their query parameters
ListCalls ==
    {<<None, f>> : f \in ListFilters}
        \cup {<<Some("u1"), NoFilters>>, <<Some("u9"), NoFilters>>}

\* request bodies of update_invoice, as model_dump(exclude_unset=True)
UpdateBodies ==
    {[status |-> s] : s \in {"draft", "paid", "cancelled", "void"}}
        \cup {[due_date |-> Ord(2024, 2, 1)],
              [status |-> "sent", notes |-> Some("m")]}

\* the steps of list_invoices on slot r; the sweep's queries raise only if
\* sweep_fails
ListOps(r, sweep_fails) ==
    \/ \E c \in ListCalls, f \in sweep_fails : LiStart(r, c[1], c[2], f)
    \/ \E f \in sweep_fails : LiSweep(r, f)
    \/ LiSelect(r)

\* the steps of update_invoice on slot r
UpdateOps(r) ==
    \/ \E id \in 1..(MaxInvoices + 1), d \in UpdateBodies : UiStart(r, id, d)
    \/ UiWrite(r)

\* every query of the sweep succeeds
NextListing ==
    \/ ListOps(1, {FALSE})
    \/ UpdateOps(2)

SpecListing == InitListing /\ [][NextListing]_vars

\* C19: no invoice that list_invoices returns has status draft or sent
\* together with a due_date earlier than today, and a step of the overdue
\* sweep leaves every invoice that is paid, cancelled or already overdue as
\* it is.
CexC19 ==
    /\ [](result.op = "list_invoices" /\ result.status = "ok"
            => \A i \in DOMAIN result.data :
                 ~(result.data[i].status \in {"draft", "sent"}
                   /\ result.data[i].due_date < today))
    /\ [][(\E r \in Req : pc[r] = "li_sweep" /\ loc'[r] # loc[r])
            => \A i \in DOMAIN invoices :
                 invoices[i].status \in {"paid", "cancelled", "overdue"}
                    => invoices'[i] = invoices[i]]_vars

-----------------------------------------------------------------------------
(* Specification of the life of an invoice: the invoice of the first        *)
(* calculation exists; its calculation is recalculated and approved again,  *)
(* invoices are generated, updated and listed, one request at a time.       *)

InitInvoiceLife == InitInvoiced(1)

NextInvoiceLife ==
    \/ LifecycleOps
    \/ UpdateTeacherSalaryConfig(1, 1, [basic_monthly_salary |-> 33000])
    \/ \E d \in {DatedBody(1), PlainBody(2)} : GiStart(1, d)
    \/ GiExisting(1)
    \/ GiNumber(1)
    \/ GiInsert(1)
    \/ UpdateOps(1)
    \/ ListOps(1, BOOLEAN)

SpecInvoiceLife == InitInvoiceLife /\ [][NextInvoiceLife]_vars

\* the columns of an invoice that generate_invoice computes
Computed(inv) ==
    [k \in {"invoice_number", "teacher_id", "calculation_id", "items",
            "subtotal", "deductions", "bonuses", "tax", "net_amount",
            "total_amount"} |-> inv[k]]

\* C20: no step changes the invoice_number, teacher_id, calculation_id,
\* items, subtotal, deductions, bonuses, tax, net_amount or total_amount of
\* an invoice that exists, and no step removes an invoice.
ThmC20 ==
    [][\A i \in DOMAIN invoices :
          /\ i \in DOMAIN invoices'
          /\ Computed(invoices'[i]) = Computed(invoices[i])]_vars

\* the first invoice was updated and swept, a second invoice was generated,
\* and the first invoice's calculation was recalculated to another amount
WitC20 ==
    /\ Len(invoices) = 2
    /\ invoices[1].status = "overdue"
    /\ invoices[1].notes = Some("m")
    /\ calcs[1].net_salary # invoices[1].net_amount

-----------------------------------------------------------------------------
(* Specification of the calculator's functions: on drawn tables of rules,   *)
(* manual attendance and biometric records, calculate_salary and            *)
(* calculate_working_days are called with drawn arguments.                  *)

\* deduction rules to draw from; the second one is switched off
RulePool ==
    <<Rule("Absent", "absent", "full_day", 0, 0, 3, TRUE),
      Rule("Absent (old)", "absent", "fixed_amount", 300, 0, 3, FALSE),
      Rule("Late", "late_coming", "fixed_amount", 50, 10, 0, TRUE),
      Rule("Half Day", "half_day", "half_day", 0, 0, 3, TRUE)>>

\* manual attendance rows of January 2024 to draw from
CalculatorAttPool ==
    <<[user_id |-> "u1", date |-> Ord(2024, 1, 8), status |-> "absent"],
      [user_id |-> "u1", date |-> Ord(2024, 1, 15), status |-> "absent"],
      [user_id |-> "u1", date |-> Ord(2024, 1, 16), status |-> "half_day"],
      [user_id |-> "u1", date |-> Ord(2024, 1, 17), status |-> "present"]>>

\* the salary arguments of a call: both absent, both given, or a per-day
\* salary of 0, which calculate_salary replaces by basic / working days
SalaryArgs ==
    {<<None, None>>, <<Some(30000), Some(1000)>>, <<Some(48300), Some(0)>>}

\* years of the calendar calls: leap years, common years, century years
CalendarYears == {1900, 2000, 2023, 2024, 2025, 2100}

InitCalculator ==
    /\ today = Ord(2024, 2, 10)
    /\ \E S \in SUBSET DOMAIN RulePool : rules = Pick(RulePool, S)
    /\ timings = <<>>
    /\ \E S \in SUBSET {2} : bio = Pick(BioPool, S)
    /\ \E S \in SUBSET DOMAIN CalculatorAttPool : att = Pick(CalculatorAttPool, S)
    /\ configs = <<Config("t1", 30000, 1000, Ord(2023, 9, 1), TRUE),
                   Config("t2", 36000, 1200, Ord(2023, 9, 1), FALSE)>>
    /\ calcs = <<>>
    /\ invoices = <<>>
    /\ uploads = <<>>
    /\ IdleRequests
    /\ fn = NoFn

\* calculator.calculate_salary(teacher_id, month, year, basic_salary,
\* per_day_salary, bonuses, allowances); the result carries the arguments and
\* the records the resolver returned
SalaryCall(teacher_id, month, year, basic_salary, per_day_salary, bonuses, allowances, fails) ==
    /\ fn.op = "none"
    /\ LET args == [teacher_id |-> teacher_id, month |-> month, year |-> year,
                    per_day_given |-> per_day_salary,
                    attendance_records |->
                        GetAttendanceRecords(teacher_id, month, year, TRUE, TRUE,
                                             fails.bio, fails.reg)]
       IN  IF basic_salary = None \/ per_day_salary = None
           THEN IF ActiveConfigIds(teacher_id) = {}
                THEN fn' = [op |-> "calculate_salary_raised"] @@ args
                ELSE \E c \in ActiveConfigIds(teacher_id) :
                       fn' = [op |-> "calculate_salary"] @@ args
                             @@ CalculateSalaryFrom(teacher_id, month, year,
                                    configs[c].basic_monthly_salary,
                                    configs[c].per_day_salary, bonuses,
                                    allowances, TRUE, TRUE, fails)
           ELSE fn' = [op |-> "calculate_salary"] @@ args
                      @@ CalculateSalaryFrom(teacher_id, month, year,
                             basic_salary[1], per_day_salary[1], bonuses,
                             allowances, TRUE, TRUE, fails)
    /\ UNCHANGED <<today, tables, pc, loc, result>>

\* calculator.calculate_working_days(month, year)
WorkingDaysCall(month, year) ==
    /\ fn.op = "none"
    /\ fn' = [op |-> "calculate_working_days", month |-> month, year |-> year,
              working_days |-> CalculateWorkingDays(month, year)]
    /\ UNCHANGED <<today, tables, pc, loc, result>>

NextCalculator ==
    \/ \E t \in Teachers, m \in {1, 2}, a \in SalaryArgs, b \in {0, 500},
          al \in {0, 200}, f \in {x \in FailSets : ~x.rules} :
          SalaryCall(t, m, 2024, a[1], a[2], b, al, f)
    \/ \E m \in 1..12, y \in CalendarYears : WorkingDaysCall(m, y)

SpecCalculator == InitCalculator /\ [][NextCalculator]_vars

-----------------------------------------------------------------------------
(* Claims about calculate_salary, checked under SpecCalculator *)

\* C21: a call of calculate_salary for which the resolver returned no
\* attendance record yields total_deductions = 0, an empty breakdown and
\* net_salary = basic_salary + bonuses + allowances, whatever rules are active.
ThmC21 ==
    (fn.op = "calculate_salary" /\ fn.attendance_records = <<>>)
    => /\ fn.total_deductions = 0
       /\ fn.deductions_by_rule = EmptyMap
       /\ fn.net_salary = fn.basic_salary + fn.bonuses + fn.allowances

\* C21 witness: a call without records, with three active rules, a bonus and
\* an allowance
WitC21 ==
    /\ fn.op = "calculate_salary"
    /\ fn.attendance_records = <<>>
    /\ fn.deduction_rules_applied = 3
    /\ fn.bonuses = 500
    /\ fn.allowances = 200
    /\ fn.net_salary = fn.basic_salary + 700

\* the active rules of the table, as get_deduction_rules selects them
ActiveRules == SelectSeq(rules, LAMBDA r : r.is_active)

\* the only active rule is one absent rule of deduction_type full_day
OnlyFullDayAbsentRule ==
    /\ Len(ActiveRules) = 1
    /\ ActiveRules[1].rule_type = "absent"
    /\ ActiveRules[1].deduction_type = "full_day"

\* the absent records of a call that carry no precomputed deduction
PlainAbsences ==
    {i \in DOMAIN fn.attendance_records :
        /\ fn.attendance_records[i].status = "absent"
        /\ ~(fn.attendance_records[i].deduction_amount > 0
             /\ Truthy(fn.attendance_records[i].deduction_reason))}

\* C22 (as claimed): with one active absent rule of deduction_type full_day
\* and no other active rule, a call for a teacher with k absent records
\* without precomputed deduction, called with bonuses and allowances at their
\* default of 0, yields total_deductions = k * per-day salary and
\* net_salary = basic_salary - k * per-day salary.
CexC22 ==
    (/\ fn.op = "calculate_salary"
     /\ OnlyFullDayAbsentRule
     /\ fn.bonuses = 0 /\ fn.allowances = 0)
    => LET k == Cardinality(PlainAbsences)
       IN  /\ fn.total_deductions = k * fn.per_day_salary
           /\ fn.net_salary = fn.basic_salary - k * fn.per_day_salary

\* C22 (amended): under the same rule table, when in addition no record of
\* the call has status half_day and none carries a precomputed deduction,
\* total_deductions = k * per-day salary and
\* net_salary = basic_salary - k * per-day salary + bonuses + allowances.
ThmC22 ==
    (/\ fn.op = "calculate_salary"
     /\ OnlyFullDayAbsentRule
     /\ \A i \in DOMAIN fn.attendance_records :
           /\ fn.attendance_records[i].status # "half_day"
           /\ ~(fn.attendance_records[i].deduction_amount > 0
                /\ Truthy(fn.attendance_records[i].deduction_reason)))
    => LET k == Cardinality(PlainAbsences)
       IN  /\ fn.total_deductions = k * fn.per_day_salary
           /\ fn.net_salary = fn.basic_salary - k * fn.per_day_salary
                              + fn.bonuses + fn.allowances

\* C22 witness: basic 30000, per-day salary 1000 and two absences under the
\* full_day rule give deductions of 2000 and a net salary of 28000
WitC22 ==
    /\ fn.op = "calculate_salary"
    /\ OnlyFullDayAbsentRule
    /\ Cardinality(PlainAbsences) = 2
    /\ Len(fn.attendance_records) = 3
    /\ fn.basic_salary = 30000
    /\ fn.per_day_salary = 1000
    /\ fn.total_deductions = 2000
    /\ fn.net_salary = 28000

\* the Saturdays and Sundays of a month, by the day of the week of its first
\* day: the days d with (weekday of day 1 + d - 1) mod 7 in {5, 6}
WeekendDays(month, year) ==
    LET first == Weekday(Ord(year, month, 1))
    IN  {d \in 1..DaysInMonth(year, month) : (first + d - 1) % 7 \in {5, 6}}

\* C23: calculate_working_days(month, year) is the number of calendar days of
\* the month minus the number of its Saturdays and Sundays, and
\* calculate_salary reports this figure as total_working_days both when the
\* per-day salary is given and when it is computed.
ThmC23 ==
    /\ fn.op = "calculate_working_days"
       => fn.working_days = DaysInMonth(fn.year, fn.month)
                            - Cardinality(WeekendDays(fn.month, fn.year))
    /\ fn.op = "calculate_salary"
       => fn.total_working_days = DaysInMonth(fn.year, fn.month)
                                  - Cardinality(WeekendDays(fn.month, fn.year))

\* C23 witness: a salary call with a per-day salary of 0 for February 2024
\* (29 days, 4 Saturdays, 4 Sundays) reports 21 working days and the per-day
\* salary computed from them
WitC23 ==
    /\ fn.op = "calculate_salary"
    /\ fn.per_day_given = Some(0)
    /\ fn.month = 2 /\ fn.year = 2024
    /\ fn.total_working_days = 21
    /\ fn.per_day_salary = 2300

-----------------------------------------------------------------------------
(* Specification of the rule dispatch: apply_deduction_rules is called on   *)
(* drawn records, some with a deduction stored at ingestion, under drawn    *)
(* rule lists.                                                              *)

\* an attendance record with the deduction columns of a biometric row
StoredEvent(status, late_minutes, amount, reason) ==
    [status |-> status, late_minutes |-> late_minutes,
     early_departure_minutes |-> 0,
     deduction_amount |-> amount, deduction_reason |-> reason]

\* records to draw from: without stored deduction, with an amount and a
\* reason with and without a colon, with an amount but no reason, and with a
\* reason but no amount
DispatchEvents ==
    {Event("present", 0), Event("absent", 0), Event("half_day", 0),
     Event("late", 20),
     StoredEvent("late", 20, 50, <<"Late arrival", ":", "20", "minutes">>),
     StoredEvent("absent", 0, 300, <<"Unpaid leave">>),
     StoredEvent("late", 20, 70, NoReason),
     StoredEvent("absent", 0, 0, <<"Note", ":", "excused">>)}

\* rule lists to draw from; one late_coming rule bears the name that the
\* reasons of ingestion start with
DispatchRules ==
    {<<>>,
     <<Rule("Absent", "absent", "full_day", 0, 0, 3, TRUE),
       Rule("Late", "late_coming", "fixed_amount", 40, 10, 1, TRUE),
       Rule("Half Day", "half_day", "half_day", 0, 0, 3, TRUE)>>,
     <<Rule("Late arrival", "late_coming", "percentage", 10, 10, 0, TRUE),
       Rule("Absent", "absent", "fixed_amount", 0, 0, 3, TRUE)>>,
     <<Rule("Absent", "absent", "full_day", 0, 0, 3, TRUE),
       Rule("Absent", "absent", "fixed_amount", 100, 0, 3, TRUE)>>}

InitDispatch ==
    /\ today = Ord(2024, 2, 10)
    /\ rules = <<>>
    /\ timings = <<>>
    /\ bio = <<>>
    /\ att = <<>>
    /\ configs = <<>>
    /\ calcs = <<>>
    /\ invoices = <<>>
    /\ uploads = <<>>
    /\ IdleRequests
    /\ \E recs \in SeqsUpTo(DispatchEvents, MaxEvents), rs \in DispatchRules :
          fn = [op |-> "args", attendance_records |-> recs,
                per_day_salary |-> 1000, deduction_rules |-> rs]

NextDispatch == ApplyCall

SpecDispatch == InitDispatch /\ [][NextDispatch]_vars

-----------------------------------------------------------------------------
(* Claims about the rule dispatch, checked under SpecDispatch *)

\* the records of the call that carry an amount above zero and a reason
StoredOfCall ==
    {i \in DOMAIN fn.attendance_records :
        /\ fn.attendance_records[i].deduction_amount > 0
        /\ fn.attendance_records[i].deduction_reason # NoReason}

\* the text of a reason before its first colon, or Manual without a colon
KeyOfReason(reason) ==
    LET colons == {n \in DOMAIN reason : reason[n] = ":"}
    IN  IF colons = {} THEN <<"Manual">>
        ELSE SubSeq(reason, 1, (CHOOSE n \in colons : \A m \in colons : n <= m) - 1)

\* the records of the call that rule j of the call charges: records without
\* stored deduction whose status is the rule's type; for a late_coming rule
\* those beyond its grace, if the late records of the whole call beyond its
\* grace outnumber its max_late_count
ChargedBy(j) ==
    LET rule == fn.deduction_rules[j]
        recs == fn.attendance_records
        beyond == {i \in DOMAIN recs : /\ recs[i].status = "late"
                                       /\ recs[i].late_minutes > rule.grace_minutes}
    IN  {i \in DOMAIN recs \ StoredOfCall :
            /\ recs[i].status = (IF rule.rule_type = "late_coming" THEN "late"
                                 ELSE rule.rule_type)
            /\ rule.rule_type = "late_coming"
                  => /\ i \in beyond
                     /\ Cardinality(beyond) > rule.max_late_count}

\* the half_day records of the call charged by default: those without stored
\* deduction, when the call has no half_day rule
HalfDayDefaults ==
    IF \E j \in DOMAIN fn.deduction_rules :
          fn.deduction_rules[j].rule_type = "half_day"
    THEN {}
    ELSE {i \in DOMAIN fn.attendance_records \ StoredOfCall :
            fn.attendance_records[i].status = "half_day"}

\* the amount the call owes under breakdown key k
OwedUnder(k) ==
    LET recs == fn.attendance_records
        same_key == {i \in StoredOfCall : KeyOfReason(recs[i].deduction_reason) = k}
        same_name == {j \in DOMAIN fn.deduction_rules :
                         <<fn.deduction_rules[j].rule_name>> = k}
    IN  SumOver([i \in same_key |-> recs[i].deduction_amount], same_key)
        + SumOver([j \in same_name |->
                      Cardinality(ChargedBy(j))
                      * CalculateDeduction(fn.deduction_rules[j], fn.per_day_salary)],
                  same_name)
        + (IF k = <<"Half Day (Default)">>
           THEN Cardinality(HalfDayDefaults) * (fn.per_day_salary \div 2) ELSE 0)

\* the breakdown keys the call owes something under
OwedKeys ==
    {KeyOfReason(fn.attendance_records[i].deduction_reason) : i \in StoredOfCall}
    \cup {<<fn.deduction_rules[j].rule_name>> :
             j \in {x \in DOMAIN fn.deduction_rules : ChargedBy(x) # {}}}
    \cup (IF HalfDayDefaults # {} THEN {<<"Half Day (Default)">>} ELSE {})

\* C24: in a call of apply_deduction_rules every record with an amount above
\* zero and a non-empty reason adds exactly its amount under the key that is
\* the reason's text before its first colon (Manual without a colon) and is
\* charged by no rule, whatever its status; every other record is charged by
\* the rules of its status. The breakdown holds exactly these amounts and the
\* total is their sum.
ThmC24 ==
    fn.op = "apply_deduction_rules"
    => /\ DOMAIN fn.deductions_by_rule = OwedKeys
       /\ \A k \in OwedKeys : fn.deductions_by_rule[k] = OwedUnder(k)
       /\ fn.total_deductions = SumOver([k \in OwedKeys |-> OwedUnder(k)], OwedKeys)

\* C24 witness: under an absent rule of a full day, a call with an absent
\* record storing 300 under a reason without colon, a late record storing 50
\* under "Late arrival: 20 minutes" and an absent record without stored
\* deduction has charged 300 as Manual, 50 as Late arrival and one day's
\* salary as Absent
WitC24 ==
    /\ fn.op = "apply_deduction_rules"
    /\ Len(fn.attendance_records) = 3
    /\ Cardinality(StoredOfCall) = 2
    /\ DOMAIN fn.deductions_by_rule = {<<"Manual">>, <<"Late arrival">>, <<"Absent">>}
    /\ fn.deductions_by_rule[<<"Manual">>] = 300
    /\ fn.deductions_by_rule[<<"Late arrival">>] = 50
    /\ fn.deductions_by_rule[<<"Absent">>] = 1000
    /\ fn.total_deductions = 1350

-----------------------------------------------------------------------------
(* Specification of ingestion under late_coming rules of each deduction     *)
(* type: CSV files are uploaded one request at a time.                      *)

\* deduction_type and deduction_value of the late_coming rule
LateRuleKinds ==
    {<<"fixed_amount", 50>>, <<"percentage", 10>>, <<"full_day", 0>>,
     <<"half_day", 0>>}

InitIngest ==
    /\ today = Ord(2024, 2, 10)
    /\ \E d \in LateRuleKinds :
          rules = <<Rule("Late", "late_coming", d[1], d[2], 10, 3, TRUE),
                    Rule("Absent", "absent", "full_day", 0, 0, 3, TRUE)>>
    /\ timings = <<[arrival_time |-> 8 * 3600, grace_period_minutes |-> 5,
                    is_active |-> TRUE]>>
    /\ bio = <<>>
    /\ att = <<>>
    /\ configs = InitialConfigs
    /\ calcs = <<>>
    /\ invoices = <<>>
    /\ uploads = <<>>
    /\ IdleRequests
    /\ fn = NoFn

NextIngest == UploadOps(1)

SpecIngest == InitIngest /\ [][NextIngest]_vars

\* C25: while a late_coming rule is active, the deduction_amount stored on a
\* late biometric record equals the amount that _calculate_deduction gives
\* for that rule at the per-day salary of the record's teacher.
CexC25 ==
    \A i \in DOMAIN bio, j \in DOMAIN rules :
        (/\ bio[i].status = "late"
         /\ rules[j].is_active
         /\ rules[j].rule_type = "late_coming")
        => \E c \in ActiveConfigIds(bio[i].teacher_id) :
              bio[i].deduction_amount
                 = CalculateDeduction(rules[j], configs[c].per_day_salary)

-----------------------------------------------------------------------------
(* Specification of ingestion under drawn school timings: a morning school, *)
(* an evening school whose grace ends after midnight, a timing switched     *)
(* off, and no timing at all.                                               *)

Timing(arrival_time, grace_period_minutes, active) ==
    [arrival_time |-> arrival_time,
     grace_period_minutes |-> grace_period_minutes, is_active |-> active]

TimingTables ==
    {<<>>,
     <<Timing(8 * 3600, 5, TRUE)>>,
     <<Timing(8 * 3600, 5, FALSE)>>,
     <<Timing(23 * 3600 + 50 * 60, 15, TRUE)>>}

\* the files of CsvFiles and a file with a check-in at 23:55:00
TimedFiles ==
    CsvFiles \cup
    {<<"n.csv", <<CsvRow("Ali", Some(Ord(2024, 1, 10)), Some(23 * 3600 + 55 * 60),
                         "C/In")>> >>}

InitTimed ==
    /\ today = Ord(2024, 2, 10)
    /\ rules = <<Rule("Late", "late_coming", "fixed_amount", 50, 10, 3, TRUE)>>
    /\ timings \in TimingTables
    /\ bio = <<>>
    /\ att = <<>>
    /\ configs = InitialConfigs
    /\ calcs = <<>>
    /\ invoices = <<>>
    /\ uploads = <<>>
    /\ IdleRequests
    /\ fn = NoFn

NextTimed ==
    \/ \E f \in TimedFiles : UpStart(1, f[1], f[2], NoUploadFails)
    \/ UpRow(1, NoUploadFails)
    \/ UpWrite(1, NoUploadFails)
    \/ UpFinish(1, NoUploadFails)

SpecTimed == InitTimed /\ [][NextTimed]_vars

\* the active school timings
ActiveTimings == {timings[i] : i \in {j \in DOMAIN timings : timings[j].is_active}}

\* C26: a stored biometric record has status late exactly when it stems from
\* a check-in row, an active timing exists and the check-in is later than
\* arrival_time + grace_period_minutes; its late_minutes is then the whole
\* minutes from arrival_time to the check-in, at least grace_period_minutes.
\* Every other stored record has status present, late_minutes 0 and
\* deduction_amount 0.
CexC26 ==
    \A i \in DOMAIN bio :
       LET b == bio[i]
           later == /\ b.check_in_time # None
                    /\ \E t \in ActiveTimings :
                          b.check_in_time[1]
                             > t.arrival_time + 60 * t.grace_period_minutes
       IN  /\ b.status = "late" <=> later
           /\ b.status = "late"
                 => \E t \in ActiveTimings :
                       /\ b.late_minutes
                             = (b.check_in_time[1] - t.arrival_time) \div 60
                       /\ b.late_minutes >= t.grace_period_minutes
           /\ b.status # "late"
                 => /\ b.status = "present"
                    /\ b.late_minutes = 0
                    /\ b.deduction_amount = 0

\* C27: in every reachable state the net_amount and the total_amount of each
\* invoice equal the net_salary now stored on the salary calculation the
\* invoice references.
CexC27 ==
    \A i \in DOMAIN invoices :
        /\ invoices[i].calculation_id \in DOMAIN calcs
        /\ invoices[i].net_amount = calcs[invoices[i].calculation_id].net_salary
        /\ invoices[i].total_amount = calcs[invoices[i].calculation_id].net_salary

\* C28: a write of the overdue sweep never sets to overdue an invoice that is
\* paid or cancelled at the moment of the write, also when update_invoice
\* changed the invoice after the sweep had selected it.
CexC28 ==
    [][\A r \in Req, i \in DOMAIN invoices :
          (/\ pc[r] = "li_sweep"
           /\ loc'[r] # loc[r]
           /\ invoices[i].status \in {"paid", "cancelled"})
          => invoices'[i].status # "overdue"]_vars

\* the sequences that hold the elements of s in another order
Reorderings(s) ==
    {[i \in DOMAIN s |-> s[f[i]]] :
        f \in {g \in [DOMAIN s -> DOMAIN s] : \A i, j \in DOMAIN s :
                                                 i # j => g[i] # g[j]}}

\* C29: apply_deduction_rules gives the same total_deductions and the same
\* deductions_by_rule for every order of the records of a call; a record that
\* is late beyond the grace of a late_coming rule is charged when the late
\* records of the whole call beyond that grace outnumber max_late_count,
\* wherever in the list it stands.
ThmC29 ==
    fn.op = "apply_deduction_rules"
    => /\ \A p \in Reorderings(fn.attendance_records) :
             ApplyDeductionRules(p, fn.per_day_salary, fn.deduction_rules)
                = [total |-> fn.total_deductions,
                   by_rule |-> fn.deductions_by_rule]
       /\ \A j \in DOMAIN fn.deduction_rules :
             ChargedBy(j) # {}
                => <<fn.deduction_rules[j].rule_name>> \in DOMAIN fn.deductions_by_rule

\* C29 witness: under a late_coming rule with max_late_count = 1, a call whose
\* first record is late without stored deduction and whose second and last
\* record is late too has charged the first record
WitC29 ==
    /\ fn.op = "apply_deduction_rules"
    /\ Len(fn.attendance_records) = 2
    /\ fn.attendance_records[1] = Event("late", 20)
    /\ fn.attendance_records[2].status = "late"
    /\ fn.attendance_records[2].deduction_amount = 50
    /\ Len(fn.deduction_rules) = 3
    /\ fn.deduction_rules[2].max_late_count = 1
    /\ fn.deductions_by_rule[<<"Late">>] = 40

-----------------------------------------------------------------------------
(* Specification of uploads whose file names one teacher and date more than *)
(* once: every query succeeds, one request at a time.                       *)

\* the files of UploadFiles, a late check-in followed by a check-in within
\* grace, and a check-in within grace followed by a late one and by an
\* unmatched name
RepeatingFiles ==
    UploadFiles \cup
    {<<"f.csv", <<CsvRow("Ali", Some(Ord(2024, 1, 10)), Some(8 * 3600 + 20 * 60),
                         "C/In"),
                  CsvRow("Ali", Some(Ord(2024, 1, 10)), Some(8 * 3600 + 3 * 60),
                         "C/In")>> >>,
     <<"g.csv", <<CsvRow("Ali", Some(Ord(2024, 1, 10)), Some(8 * 3600 + 3 * 60),
                         "C/In"),
                  CsvRow("Ali", Some(Ord(2024, 1, 10)), Some(8 * 3600 + 20 * 60),
                         "C/In"),
                  CsvRow("Zed", Some(Ord(2024, 1, 10)), Some(8 * 3600), "C/In")>> >>}

NextRepeating ==
    \/ \E f \in RepeatingFiles : UpStart(1, f[1], f[2], NoUploadFails)
    \/ UpRow(1, NoUploadFails)
    \/ UpWrite(1, NoUploadFails)
    \/ UpFinish(1, NoUploadFails)

SpecRepeating == InitSalary /\ [][NextRepeating]_vars

\* the rows of a file that are processed successfully when every query
\* succeeds, and the (teacher, date) pair of such a row
GoodRows(rows) ==
    {n \in DOMAIN rows : /\ NameMatches(rows[n].name) # {}
                         /\ rows[n].date # None /\ rows[n].time # None}

PairOfRow(row) == <<CHOOSE t \in NameMatches(row.name) : TRUE, row.date[1]>>

\* C30: once an upload has processed its file, every biometric record it
\* wrote is the record derived from the last successfully processed row of
\* its (teacher, date) pair: status, late_minutes, deduction_amount,
\* deduction_reason and check_in_time are those of that row, whatever an
\* earlier row of the pair had written.
ThmC30 ==
    \A u \in FinishedUploads, i \in DOMAIN bio :
        bio[i].uploaded_file_id = u
        => LET rows == (CHOOSE f \in RepeatingFiles : f[1] = uploads[u].file_name)[2]
               same == {n \in GoodRows(rows) : PairOfRow(rows[n]) = BioKey(bio[i])}
               last == CHOOSE n \in same : \A m \in same : m <= n
           IN  /\ same # {}
               /\ bio[i] = AttendanceRecord(bio[i].teacher_id, rows[last],
                               Some(timings[1]), Some(rules[1]), u)

\* C30 witness: the upload of a late check-in followed by a check-out of the
\* same teacher and date has ended, and the stored record is present without
\* check-in time, late minutes or deduction
WitC30 ==
    /\ 1 \in FinishedUploads
    /\ uploads[1].file_name = "d.csv"
    /\ Len(bio) = 1
    /\ bio[1].status = "present"
    /\ bio[1].check_in_time = None
    /\ bio[1].late_minutes = 0
    /\ bio[1].deduction_amount = 0
    /\ bio[1].deduction_reason = NoReason

=============================================================================
